---- MODULE Spec2Model ----
(***************************************************************************)
(* A model of zola's markdown rendering core:                              *)
(*   components/rendering/src/markdown.rs   (markdown_to_html and helpers) *)
(*   components/config/src/config/markup.rs (Markdown configuration)       *)
(*   components/config/src/highlighting.rs  (syntax/theme registries)      *)
(* in seven specifications over one state: the section passes, the heading *)
(* passes, find_anchor, the registries under concurrent threads, the whole *)
(* of markdown_to_html on drawn documents, the two link functions on drawn *)
(* inputs, and find_anchor call frame by call frame on long lists.         *)
(*                                                                         *)
(* Strings are sequences of characters (one-character strings), so that   *)
(* slicing, searching, escaping and formatting are computed as the code    *)
(* computes them; the documents drawn are ASCII, where a byte offset is a  *)
(* character index.  Offsets are 0-based as in the source; TLA+ sequences  *)
(* are 1-based and the helpers below convert.                              *)
(***************************************************************************)
EXTENDS Integers, Sequences, FiniteSets, TLC

VARIABLES
    \* ---- make_hierarchical_sections / make_flat_sections -----------------
    sec_mode,        \* SectionTagsMode of the run: "Hierarchical" | "Flat"
    sec_src,         \* events.clone(): the snapshot the loop iterates over
    sec_events,      \* events: the vector being mutated
    level_stack,     \* level_stack (hierarchical mode)
    in_section,      \* in_section (flat mode)
    items_added,     \* items_added
    sec_n,           \* n: index of the next snapshot event (0-based)
    sec_pc,          \* "idle" | "loop" | "done" | "panic"
    \* ---- the render context (read-only during a render) ------------------
    context,         \* RenderContext / config fields the passes read
    \* ---- markdown_to_html: the two heading passes ------------------------
    hd_items,        \* the headings as written in the document (input)
    hd_events,       \* events, after the cleanup filter and section wrapping
    heading_refs,    \* heading_refs
    inserted_anchors,\* inserted_anchors
    anchors_to_insert, \* anchors_to_insert
    headings,        \* headings (the flat list handed to the table of contents)
    hd_k,            \* number of heading_refs the current pass has visited
    hd_pc,           \* "idle" | "first" | "second" | "insert" | "done" | "err" | "panic"
    \* ---- find_anchor as a function under test ----------------------------
    fa_anchors,      \* anchors
    fa_name,         \* name
    fa_result,       \* the value returned
    fa_pc,           \* "idle" | "call" | "returned"
    \* ---- the process-wide registries and the threads using them ----------
    EXTRA_SYNTAX_SET,           \* OnceCell<SyntaxSet>
    EXTRA_HIGHLIGHT_THEME_SET,  \* OnceCell<ThemeSet>
    t_pc,            \* per thread: where it stands in the function it runs
    t_cfg,           \* per thread: the Markdown config of its current call, or
                     \* of the initialisation it has last finished
    t_lang,          \* per thread: the language token of its last render
    t_result,        \* per thread: what its last finished call returned
    \* ---- markdown_to_html: the event loop --------------------------------
    r_content,       \* content: the source text
    r_parser,        \* Parser::new_ext(content, opts).into_offset_iter(): the
                     \* (event, range) pairs the tokenizer yields
    r_shortcodes,    \* html_shortcodes as supplied by the caller
    r_ctx,           \* the context fields the link handling reads
    r_idx,           \* number of (event, range) pairs consumed
    html_shortcodes, \* html_shortcodes (reversed: the next call is the last)
    next_shortcode,  \* next_shortcode: Option<Shortcode>
    r_events,        \* events
    r_error,         \* error: Option<Error>
    code_block,      \* code_block: Option<CodeBlock>
    internal_links,  \* internal_links
    external_links,  \* external_links
    stop_next_end_p, \* stop_next_end_p
    has_summary,     \* has_summary
    rendered,        \* history: the calls handed to Shortcode::render, in order
    suppressed,      \* history: the positions in r_parser of the paragraph
                     \* events that were replaced by an empty fragment
    r_pc,            \* "idle" | "loop" | "headings" | "done" | "panic"
    r_result,        \* what markdown_to_html returned
    \* ---- fix_link and construct_external_link_tag as functions under test
    lk_ctx,          \* context: current_page_path and the three link flags
    lk_history,      \* history: the (link_type, link) pairs passed to fix_link
    lk_internal,     \* internal_links, kept from call to call
    lk_external,     \* external_links, kept from call to call
    lk_result,       \* what the last call of fix_link returned
    lk_url,          \* url of the last call of construct_external_link_tag
    lk_title,        \* title of that call
    lk_tag,          \* what that call returned
    lk_op,           \* the function called last: "none" | "fix_link" |
                     \* "construct_external_link_tag"
    \* ---- find_anchor, one call frame per step ----------------------------
    fd_build,        \* "debug" (overflow checks on) | "release" (wrapping)
    fd_name,         \* name
    fd_list,         \* anchors: the ids listed one by one ...
    fd_dense,        \* ... followed by name-1, name-2, .., name-fd_dense
    fd_level,        \* level: u16, the argument of the current call frame
    fd_wrapped,      \* history: level + 1 has wrapped around to 0
    fd_frames,       \* the number of frames of find_anchor the stack holds
    fd_result,       \* the value returned
    fd_pc            \* "idle" | "call" | "returned" | "panic" (overflow
                     \* check) | "abort" (stack overflow)

sec_vars == <<sec_mode, sec_src, sec_events, level_stack, in_section,
              items_added, sec_n, sec_pc>>

hd_vars == <<hd_items, hd_events, heading_refs, inserted_anchors,
             anchors_to_insert, headings, hd_k, hd_pc>>

fa_vars == <<fa_anchors, fa_name, fa_result, fa_pc>>

render_vars == <<r_content, r_parser, r_shortcodes, r_ctx, r_idx, html_shortcodes,
                 next_shortcode, r_events, r_error, code_block, internal_links,
                 external_links, stop_next_end_p, has_summary, rendered,
                 suppressed, r_pc, r_result>>

reg_vars == <<EXTRA_SYNTAX_SET, EXTRA_HIGHLIGHT_THEME_SET, t_pc, t_cfg, t_lang,
              t_result>>

lk_vars == <<lk_ctx, lk_history, lk_internal, lk_external, lk_result, lk_url,
             lk_title, lk_tag, lk_op>>

fd_vars == <<fd_build, fd_name, fd_list, fd_dense, fd_level, fd_wrapped,
             fd_frames, fd_result, fd_pc>>

vars == <<sec_vars, context, hd_vars, fa_vars, reg_vars, render_vars, lk_vars,
          fd_vars>>

\* what an action of one part leaves alone
sec_others ==
    <<context, hd_vars, fa_vars, reg_vars, render_vars, lk_vars, fd_vars>>
hd_others ==
    <<context, sec_vars, fa_vars, reg_vars, render_vars, lk_vars, fd_vars>>
fa_others ==
    <<context, sec_vars, hd_vars, reg_vars, render_vars, lk_vars, fd_vars>>
reg_others ==
    <<context, sec_vars, hd_vars, fa_vars, render_vars, lk_vars, fd_vars>>
render_others == <<context, sec_vars, fa_vars, reg_vars, lk_vars, fd_vars>>
fd_others ==
    <<context, sec_vars, hd_vars, fa_vars, reg_vars, render_vars, lk_vars>>
lk_others ==
    <<context, sec_vars, hd_vars, fa_vars, reg_vars, render_vars, fd_vars>>

-----------------------------------------------------------------------------
(* Bounds of the model *)

\* longest list of document items (headings / paragraphs) fed to a section pass
MaxItems == 4

\* longest list of document items fed to the heading passes
MaxHeadings == 3

\* longest list of used ids handed to find_anchor on its own
MaxAnchors == 3

\* most calls of fix_link that share the two inventories
MaxLinks == 2

\* threads that initialise the registries and render concurrently
MaxThreads == 2

\* blocks of a document handed to markdown_to_html
MaxBlocks == 2

\* shortcode calls of such a document
MaxShortcodes == 2

-----------------------------------------------------------------------------
(* Rust slices and strings *)

\* seq[a..b) with 0-based, end-exclusive bounds (callers check a <= b <= len)
Slice(seq, a, b) == SubSeq(seq, a + 1, b)

\* a string is the sequence of its characters, a character being written as
\* the one-character string that holds it; a character that no string
\* literal can hold is named by its code point: "U+00A0"
Chars(s) == [i \in 1..Len(s) |-> SubSeq(s, i, i)]

\* Option<T> is a sequence of zero or one T: None is <<>>, Some(x) is <<x>>
Some(x) == <<x>>

Last(seq) == seq[Len(seq)]

Pop(seq) == SubSeq(seq, 1, Len(seq) - 1)

\* Vec::insert(idx, e) for idx <= len (idx is 0-based)
InsertAt(seq, idx, e) == Slice(seq, 0, idx) \o <<e>> \o Slice(seq, idx, Len(seq))

-----------------------------------------------------------------------------
(* pulldown_cmark events, as far as markdown.rs distinguishes them *)

Text(t) == [tag |-> "Text", text |-> t]
Html(t) == [tag |-> "Html", text |-> t]
Code(t) == [tag |-> "Code", text |-> t]
StartHeading(l) == [tag |-> "StartHeading", level |-> l]
EndHeading(l) == [tag |-> "EndHeading", level |-> l]
StartParagraph == [tag |-> "StartParagraph"]
EndParagraph == [tag |-> "EndParagraph"]

\* the three literals the section passes insert
SECTION_OPEN == Html(Chars("<section>"))
SECTION_CLOSE == Html(Chars("</section>"))
SECTION_CLOSE_OPEN == Html(Chars("</section><section>"))

-----------------------------------------------------------------------------
(* make_hierarchical_sections *)

\* state of one run of a section pass, as the loop body sees it
SecState == [events |-> sec_events, stack |-> level_stack,
             added |-> items_added, panic |-> FALSE]

\* the insertion made at the index of the snapshot, earlier insertions not
\* counted
SecInsert_NoOffset(st, n, e) ==
    IF n > Len(st.events)
    THEN [st EXCEPT !.panic = TRUE]
    ELSE [st EXCEPT !.events = InsertAt(st.events, n, e),
                    !.added = st.added + 1]

\* events.insert(n + items_added, e); items_added += 1
SecInsert(st, n, e) ==
    IF n + st.added > Len(st.events)
    THEN [st EXCEPT !.panic = TRUE]
    ELSE [st EXCEPT !.events = InsertAt(st.events, n + st.added, e),
                    !.added = st.added + 1]

\* while level_stack.last().unwrap() != &heading_level { insert "</section>"; pop }
\* last() of an empty stack is None and unwrap() panics
RECURSIVE CloseUntilLevel(_, _, _)
CloseUntilLevel(st, n, heading_level) ==
    IF st.panic THEN st
    ELSE IF st.stack = <<>> THEN [st EXCEPT !.panic = TRUE]
    ELSE IF Last(st.stack) # heading_level
    THEN LET ins == SecInsert(st, n, SECTION_CLOSE)
         IN  CloseUntilLevel([ins EXCEPT !.stack = Pop(st.stack)], n, heading_level)
    ELSE st

\* the heading arm, the closing branch leaving the equal level on the stack
HierarchicalHeading_KeepsEqual(st, n, heading_level) ==
    IF Len(st.stack) = 0
    THEN LET ins == SecInsert(st, n, SECTION_OPEN)
         IN  [ins EXCEPT !.stack = Append(st.stack, heading_level)]
    ELSE IF heading_level = Last(st.stack)
    THEN SecInsert(st, n, SECTION_CLOSE_OPEN)
    ELSE IF heading_level < Last(st.stack)
    THEN LET closed == CloseUntilLevel(st, n, heading_level)
         IN  IF closed.panic THEN closed
             ELSE LET c1 == SecInsert(closed, n, SECTION_CLOSE)
                      c3 == SecInsert(c1, n, SECTION_OPEN)
                  IN  [c3 EXCEPT !.stack = Append(c1.stack, heading_level)]
    ELSE LET ins == SecInsert(st, n, SECTION_OPEN)
         IN  [ins EXCEPT !.stack = Append(st.stack, heading_level)]

\* the Event::Start(Tag::Heading(heading_level)) arm
HierarchicalHeading(st, n, heading_level) ==
    IF Len(st.stack) = 0
    THEN LET ins == SecInsert(st, n, SECTION_OPEN)
         IN  [ins EXCEPT !.stack = Append(st.stack, heading_level)]
    ELSE IF heading_level = Last(st.stack)
    THEN SecInsert(st, n, SECTION_CLOSE_OPEN)
    ELSE IF heading_level < Last(st.stack)
    THEN LET closed == CloseUntilLevel(st, n, heading_level)
         IN  IF closed.panic THEN closed
             ELSE LET c1 == SecInsert(closed, n, SECTION_CLOSE)
                      c2 == [c1 EXCEPT !.stack = Pop(closed.stack)]
                      c3 == SecInsert(c2, n, SECTION_OPEN)
                  IN  [c3 EXCEPT !.stack = Append(c2.stack, heading_level)]
    ELSE LET ins == SecInsert(st, n, SECTION_OPEN)
         IN  [ins EXCEPT !.stack = Append(st.stack, heading_level)]

\* one iteration of `for (n, event) in events.clone().into_iter().enumerate()`
HierarchicalEvent(st, n, event) ==
    IF event.tag = "StartHeading"
    THEN HierarchicalHeading(st, n, event.level)
    ELSE st

\* while level_stack.len() > 0 { events.push("</section>"); pop }
RECURSIVE HierarchicalCloseAll(_)
HierarchicalCloseAll(st) ==
    IF Len(st.stack) > 0
    THEN HierarchicalCloseAll([st EXCEPT !.events = Append(st.events, SECTION_CLOSE),
                                         !.added = st.added + 1,
                                         !.stack = Pop(st.stack)])
    ELSE st

-----------------------------------------------------------------------------
(* make_flat_sections *)

\* one iteration of the loop of make_flat_sections
FlatEvent(st, inSec, n, event) ==
    IF event.tag = "StartHeading"
    THEN IF ~inSec
         THEN [st |-> SecInsert(st, n, SECTION_OPEN), in_section |-> TRUE]
         ELSE [st |-> SecInsert(st, n, SECTION_CLOSE_OPEN), in_section |-> inSec]
    ELSE [st |-> st, in_section |-> inSec]

\* if in_section { events.push("</section>") }
FlatCloseAll(events, inSec) ==
    IF inSec THEN Append(events, SECTION_CLOSE) ELSE events

-----------------------------------------------------------------------------
(* The section passes as a state machine, one loop iteration per step *)

\* heading levels of pulldown_cmark (h1..h6)
HeadingLevels == 1..6

\* a document item: 0 is a paragraph, l in 1..6 a heading of level l
ItemEvents(item) ==
    IF item = 0
    THEN <<StartParagraph, Text(<<"p">>), EndParagraph>>
    ELSE <<StartHeading(item), Text(<<"t">>), EndHeading(item)>>

RECURSIVE DocEvents(_)
DocEvents(items) ==
    IF items = <<>> THEN <<>>
    ELSE ItemEvents(items[1]) \o DocEvents(Tail(items))

SecDocs == UNION {[1..k -> {0} \cup HeadingLevels] : k \in 0..MaxItems}

SecIdle ==
    /\ sec_mode = "None"
    /\ sec_src = <<>>
    /\ sec_events = <<>>
    /\ level_stack = <<>>
    /\ in_section = FALSE
    /\ items_added = 0
    /\ sec_n = 0
    /\ sec_pc = "idle"

SecInit ==
    /\ sec_mode \in {"Hierarchical", "Flat"}
    /\ \E items \in SecDocs :
          /\ sec_src = DocEvents(items)
          /\ sec_events = DocEvents(items)
    /\ level_stack = <<>>
    /\ in_section = FALSE
    /\ items_added = 0
    /\ sec_n = 0
    /\ sec_pc = "loop"

HierarchicalStep ==
    /\ sec_pc = "loop"
    /\ sec_mode = "Hierarchical"
    /\ sec_n < Len(sec_src)
    /\ LET st == HierarchicalEvent(SecState, sec_n, sec_src[sec_n + 1])
       IN  /\ sec_events' = st.events
           /\ level_stack' = st.stack
           /\ items_added' = st.added
           /\ sec_pc' = IF st.panic THEN "panic" ELSE "loop"
    /\ sec_n' = sec_n + 1
    /\ UNCHANGED <<sec_mode, sec_src, in_section>>
    /\ UNCHANGED sec_others

HierarchicalFinish ==
    /\ sec_pc = "loop"
    /\ sec_mode = "Hierarchical"
    /\ sec_n = Len(sec_src)
    /\ LET st == HierarchicalCloseAll(SecState)
       IN  /\ sec_events' = st.events
           /\ level_stack' = st.stack
           /\ items_added' = st.added
    /\ sec_pc' = "done"
    /\ UNCHANGED <<sec_mode, sec_src, in_section, sec_n>>
    /\ UNCHANGED sec_others

FlatStep ==
    /\ sec_pc = "loop"
    /\ sec_mode = "Flat"
    /\ sec_n < Len(sec_src)
    /\ LET r == FlatEvent(SecState, in_section, sec_n, sec_src[sec_n + 1])
       IN  /\ sec_events' = r.st.events
           /\ items_added' = r.st.added
           /\ in_section' = r.in_section
           /\ sec_pc' = IF r.st.panic THEN "panic" ELSE "loop"
    /\ sec_n' = sec_n + 1
    /\ UNCHANGED <<sec_mode, sec_src, level_stack>>
    /\ UNCHANGED sec_others

FlatFinish ==
    /\ sec_pc = "loop"
    /\ sec_mode = "Flat"
    /\ sec_n = Len(sec_src)
    /\ sec_events' = FlatCloseAll(sec_events, in_section)
    /\ sec_pc' = "done"
    /\ UNCHANGED <<sec_mode, sec_src, level_stack, in_section, items_added, sec_n>>
    /\ UNCHANGED sec_others

SecNext == HierarchicalStep \/ HierarchicalFinish \/ FlatStep \/ FlatFinish

\* the passes run to their end on one vector: [events, panic]
RECURSIVE HierarchicalRun(_, _, _)
HierarchicalRun(st, src, n) ==
    IF st.panic \/ n = Len(src) THEN st
    ELSE HierarchicalRun(HierarchicalEvent(st, n, src[n + 1]), src, n + 1)

make_hierarchical_sections(events) ==
    LET st == HierarchicalRun([events |-> events, stack |-> <<>>, added |-> 0,
                               panic |-> FALSE], events, 0)
    IN  IF st.panic THEN [events |-> st.events, panic |-> TRUE]
        ELSE [events |-> HierarchicalCloseAll(st).events, panic |-> FALSE]

RECURSIVE FlatRun(_, _, _)
FlatRun(r, src, n) ==
    IF r.st.panic \/ n = Len(src) THEN r
    ELSE FlatRun(FlatEvent(r.st, r.in_section, n, src[n + 1]), src, n + 1)

make_flat_sections(events) ==
    LET r == FlatRun([st |-> [events |-> events, stack |-> <<>>, added |-> 0,
                              panic |-> FALSE],
                      in_section |-> FALSE], events, 0)
    IN  IF r.st.panic THEN [events |-> r.st.events, panic |-> TRUE]
        ELSE [events |-> FlatCloseAll(r.st.events, r.in_section), panic |-> FALSE]

\* match context.config.markdown.render_with_section_tags { ... }
WrapSections(mode, events) ==
    IF mode = "Hierarchical" THEN make_hierarchical_sections(events)
    ELSE IF mode = "Flat" THEN make_flat_sections(events)
    ELSE [events |-> events, panic |-> FALSE]

-----------------------------------------------------------------------------
(* Strings *)

\* slice::contains
Contains(list, x) == \E i \in 1..Len(list) : list[i] = x

\* str::find(pat): the 0-based index of the first occurrence, -1 for None
FindSub(text, pat) ==
    LET hits == {i \in 0..(Len(text) - Len(pat)) :
                    Slice(text, i, i + Len(pat)) = pat}
    IN  IF hits = {} THEN -1
        ELSE CHOOSE i \in hits : \A j \in hits : i <= j

Digits == Chars("0123456789")
Lower == Chars("abcdefghijklmnopqrstuvwxyz")
Upper == Chars("ABCDEFGHIJKLMNOPQRSTUVWXYZ")
HexDigits == Chars("0123456789ABCDEF")

\* the characters of ASCII from the space on, in the order of their codes
Printable ==
    Chars(" !\"#$%&'()*+,-./") \o Digits \o Chars(":;<=>?@") \o Upper
    \o Chars("[\\]^_") \o <<"U+0060">> \o Lower \o Chars("{|}~")

IndexOf(seq, x) == CHOOSE i \in 1..Len(seq) : seq[i] = x

\* the value of a run of hexadecimal digits
RECURSIVE HexValue(_)
HexValue(digits) ==
    IF digits = <<>> THEN 0
    ELSE 16 * HexValue(Pop(digits)) + IndexOf(HexDigits, Last(digits)) - 1

\* char as u32
CodePoint(c) ==
    IF c = "\t" THEN 9
    ELSE IF c = "\n" THEN 10
    ELSE IF c = "\f" THEN 12
    ELSE IF c = "\r" THEN 13
    ELSE IF Len(c) = 1 THEN 31 + IndexOf(Printable, c)
    ELSE HexValue(Chars(SubSeq(c, 3, Len(c))))

\* the bytes of a character in a str (UTF-8), for the code points below 2^16
Utf8(cp) ==
    IF cp < 128 THEN <<cp>>
    ELSE IF cp < 2048 THEN <<192 + (cp \div 64), 128 + (cp % 64)>>
    ELSE <<224 + (cp \div 4096), 128 + ((cp \div 64) % 64), 128 + (cp % 64)>>

\* str::len: the length in bytes
RECURSIVE ByteLen(_)
ByteLen(s) ==
    IF s = <<>> THEN 0 ELSE Len(Utf8(CodePoint(s[1]))) + ByteLen(Tail(s))

\* char::is_whitespace: the characters of the Unicode property White_Space
WhiteSpace ==
    {"\t", "\n", "U+000B", "\f", "\r", " ", "U+0085", "U+00A0", "U+1680",
     "U+2000", "U+2001", "U+2002", "U+2003", "U+2004", "U+2005", "U+2006",
     "U+2007", "U+2008", "U+2009", "U+200A", "U+2028", "U+2029", "U+202F",
     "U+205F", "U+3000"}

IsWhitespace(c) == c \in WhiteSpace

\* str::trim
RECURSIVE Trim(_)
Trim(s) ==
    IF s = <<>> THEN s
    ELSE IF IsWhitespace(s[1]) THEN Trim(Tail(s))
    ELSE IF IsWhitespace(Last(s)) THEN Trim(Pop(s))
    ELSE s

\* char::to_ascii_lowercase
ToAsciiLower(c) ==
    IF \E i \in 1..Len(Upper) : Upper[i] = c
    THEN Lower[IndexOf(Upper, c)] ELSE c

\* [String]::concat
RECURSIVE Concat(_)
Concat(list) == IF list = <<>> THEN <<>> ELSE list[1] \o Concat(Tail(list))

\* Display of an unsigned integer, as format!("{}") writes it
RECURSIVE Dec(_)
Dec(n) ==
    IF n < 10 THEN <<Digits[n + 1]>>
    ELSE Dec(n \div 10) \o <<Digits[(n % 10) + 1]>>

-----------------------------------------------------------------------------
(* find_anchor *)

\* u16::MAX, the range of find_anchor's `level`
U16Max == 65535

\* the two ways the crate is built: with overflow checks (debug) and
\* without (release)
Builds == {"debug", "release"}

\* level + 1 on u16: the sum, and whether it left the range (a panic with
\* overflow checks, a wrap to 0 without)
U16Succ(n) ==
    IF n + 1 > U16Max THEN [value |-> (n + 1) % (U16Max + 1), overflow |-> TRUE]
    ELSE [value |-> n + 1, overflow |-> FALSE]

\* a counter that starts at `level` instead of `level + 1`
AnchorWithCounter_FromLevel(name, level) == name \o <<"-">> \o Dec(level)

\* format!("{}-{}", name, level + 1), where the sum has not panicked
AnchorWithCounter(name, level) ==
    name \o <<"-">> \o Dec(U16Succ(level).value)

\* what a call of find_anchor gives: the id returned, or the fault that ends
\* it: "overflow" is the panic of `level + 1`, "stack" the abort of a
\* recursion that does not end
Returned(id) == [ok |-> TRUE, id |-> id, fault |-> "none"]
Faulted(fault) == [ok |-> FALSE, id |-> <<>>, fault |-> fault]

\* the frames of find_anchor from the one with `level`; wrapped tells that
\* the counter has left the range before.  In a build with overflow checks
\* `level + 1` panics at level 65535; without them it wraps to 0, name-0 is
\* tried and the recursion goes on from level 0.  A counter that leaves the
\* range a second time has found name, name-0 and name-1 .. name-65535 all
\* used: the frames repeat for ever and the stack runs out
RECURSIVE FindAnchorFrom(_, _, _, _, _)
FindAnchorFrom(build, anchors, name, level, wrapped) ==
    IF level = 0 /\ ~Contains(anchors, name)
    THEN Returned(name)
    ELSE LET next == U16Succ(level)
             new_anchor == AnchorWithCounter(name, level)
         IN  IF next.overflow /\ build = "debug" THEN Faulted("overflow")
             ELSE IF ~Contains(anchors, new_anchor) THEN Returned(new_anchor)
             ELSE IF next.overflow /\ wrapped THEN Faulted("stack")
             ELSE FindAnchorFrom(build, anchors, name, next.value,
                                 wrapped \/ next.overflow)

\* find_anchor(anchors, name, level) in the given build, on a stack that
\* holds the frames of a recursion that ends
find_anchor(build, anchors, name, level) ==
    FindAnchorFrom(build, anchors, name, level, FALSE)

-----------------------------------------------------------------------------
(* slugify_anchors (utils::slugs), under the default strategy, for titles  *)
(* of ASCII: letters are lowercased, characters that are not alphanumeric  *)
(* become '-', runs of '-' collapse and leading and trailing '-' are       *)
(* dropped                                                                 *)

AlphaNumeric ==
    {Lower[i] : i \in 1..Len(Lower)} \cup {Upper[i] : i \in 1..Len(Upper)}
    \cup {Digits[i] : i \in 1..Len(Digits)}

RECURSIVE SlugChars(_, _)
SlugChars(title, acc) ==
    IF title = <<>> THEN acc
    ELSE IF title[1] \in AlphaNumeric
    THEN SlugChars(Tail(title), Append(acc, ToAsciiLower(title[1])))
    ELSE IF acc = <<>> \/ Last(acc) = "-"
    THEN SlugChars(Tail(title), acc)
    ELSE SlugChars(Tail(title), Append(acc, "-"))

slugify_anchors(title) ==
    LET s == SlugChars(title, <<>>)
    IN  IF s # <<>> /\ Last(s) = "-" THEN Pop(s) ELSE s

-----------------------------------------------------------------------------
(* get_text, get_heading_refs *)

RECURSIVE get_text(_)
get_text(parser_slice) ==
    IF parser_slice = <<>> THEN <<>>
    ELSE (IF parser_slice[1].tag \in {"Text", "Code"}
          THEN parser_slice[1].text ELSE <<>>)
         \o get_text(Tail(parser_slice))

\* HeadingRef::new(start, level); an Option<String> is a sequence of 0 or 1 strings
HeadingRef(start, level) ==
    [start_idx |-> start, end_idx |-> 0, level |-> level, id |-> <<>>]

RECURSIVE HeadingRefsFrom(_, _, _)
HeadingRefsFrom(events, i, refs) ==
    IF refs.panic \/ i = Len(events) THEN refs
    ELSE LET event == events[i + 1]
             list == refs.refs
         IN  IF event.tag = "StartHeading"
             THEN HeadingRefsFrom(events, i + 1,
                      [refs EXCEPT !.refs = Append(list, HeadingRef(i, event.level))])
             ELSE IF event.tag = "EndHeading"
             THEN IF list = <<>>
                  THEN [refs EXCEPT !.panic = TRUE]  \* expect("Heading end before start?")
                  ELSE HeadingRefsFrom(events, i + 1,
                      [refs EXCEPT !.refs = [list EXCEPT ![Len(list)].end_idx = i]])
             ELSE HeadingRefsFrom(events, i + 1, refs)

get_heading_refs(events) ==
    HeadingRefsFrom(events, 0, [refs |-> <<>>, panic |-> FALSE])

-----------------------------------------------------------------------------
(* markdown_to_html: first heading pass (manually specified ids) *)

\* while i > 0 && text.as_bytes()[i - 1] == b' ' { i -= 1 }
RECURSIVE SkipSpacesBack(_, _)
SkipSpacesBack(text, i) ==
    IF i > 0 /\ text[i] = " " THEN SkipSpacesBack(text, i - 1) ELSE i

\* a first pass that does not record the manual id as used
FirstPassHeading_NotRecorded(st, k) ==
    LET ref == st.refs[k]
        end_idx == ref.end_idx
    IN  IF end_idx - 1 < 0 \/ end_idx - 1 >= Len(st.events)
        THEN [st EXCEPT !.panic = TRUE]
        ELSE LET event == st.events[end_idx]   \* events[end_idx - 1], 0-based
             IN  IF event.tag # "Text" THEN st
                 ELSE LET text == event.text
                          i == FindSub(text, <<"{", "#">>)
                      IN  IF text = <<>> \/ Last(text) # "}" THEN st
                          ELSE IF i = -1 THEN st
                          ELSE IF i + 2 > Len(text) - 1
                          THEN [st EXCEPT !.panic = TRUE]
                          ELSE LET id == Slice(text, i + 2, Len(text) - 1)
                                   j == SkipSpacesBack(text, i)
                               IN  [st EXCEPT
                                      !.refs[k].id = <<id>>,
                                      !.events[end_idx].text = Slice(text, 0, j)]

\* the body of `for heading_ref in heading_refs.iter_mut()` for heading_refs[k]
FirstPassHeading(st, k) ==
    LET ref == st.refs[k]
        end_idx == ref.end_idx
    IN  IF end_idx - 1 < 0 \/ end_idx - 1 >= Len(st.events)
        THEN [st EXCEPT !.panic = TRUE]
        ELSE LET event == st.events[end_idx]   \* events[end_idx - 1], 0-based
             IN  IF event.tag # "Text" THEN st
                 ELSE LET text == event.text
                          i == FindSub(text, <<"{", "#">>)
                      IN  IF text = <<>> \/ Last(text) # "}" THEN st
                          ELSE IF i = -1 THEN st
                          ELSE IF i + 2 > Len(text) - 1
                          THEN [st EXCEPT !.panic = TRUE]
                          ELSE LET id == Slice(text, i + 2, Len(text) - 1)
                                   j == SkipSpacesBack(text, i)
                               IN  [st EXCEPT
                                      !.anchors = Append(st.anchors, id),
                                      !.refs[k].id = <<id>>,
                                      !.events[end_idx].text = Slice(text, 0, j)]

-----------------------------------------------------------------------------
(* markdown_to_html: second heading pass (remaining ids, opening tags) *)

\* context.current_page_permalink
CurrentPagePermalink == Chars("/page/")

\* an id taken from the slug without looking at the used ids
ResolveId_NoLookup(ref, anchors, title) ==
    IF ref.id # <<>>
    THEN Returned(ref.id[1])
    ELSE Returned(slugify_anchors(title))

\* manual ids disambiguated like generated ones
ResolveId_DedupManual(ref, anchors, title) ==
    find_anchor(fd_build, anchors,
                IF ref.id # <<>> THEN ref.id[1] ELSE slugify_anchors(title), 0)

\* heading_ref.id.unwrap_or_else(|| find_anchor(&inserted_anchors, slug, 0))
ResolveId(ref, anchors, title) ==
    IF ref.id # <<>>
    THEN Returned(ref.id[1])
    ELSE find_anchor(fd_build, anchors, slugify_anchors(title), 0)

\* format!("<h{lvl} id=\"{id}\">", ..)
HeadingTag(level, id) == Chars("<h") \o Dec(level) \o Chars(" id=\"") \o id \o Chars("\">")

\* the anchor-link.html template rendered with {id, level, lang}
AnchorLink(level, id) == Chars("<a class=\"zola-anchor\" href=\"#") \o id \o Chars("\">")

\* the index placed behind the closing tag for Right
AnchorIdx_AfterClose(insert_anchor, start_idx, end_idx) ==
    IF insert_anchor = "Left" THEN start_idx + 1
    ELSE IF insert_anchor = "Right" THEN end_idx + 1
    ELSE 0

\* let anchor_idx = match context.insert_anchor { .. }
AnchorIdx(insert_anchor, start_idx, end_idx) ==
    IF insert_anchor = "Left" THEN start_idx + 1
    ELSE IF insert_anchor = "Right" THEN end_idx
    ELSE 0

\* the body of `for heading_ref in heading_refs` for heading_refs[k];
\* anchor_ok is whether the template engine renders anchor-link.html
SecondPassHeading(st, k, insert_anchor, anchor_ok) ==
    LET ref == st.refs[k]
        start_idx == ref.start_idx
        end_idx == ref.end_idx
    IN  IF start_idx + 1 > end_idx \/ end_idx > Len(st.events)
        THEN [st EXCEPT !.panic = TRUE]
        ELSE
        LET title == get_text(Slice(st.events, start_idx + 1, end_idx))
            res == ResolveId(ref, st.anchors, title)
        IN  IF ~res.ok THEN [st EXCEPT !.panic = TRUE]
            ELSE
            LET id == res.id
                st1 == [st EXCEPT
                          !.anchors = Append(st.anchors, id),
                          !.events[start_idx + 1] = Html(HeadingTag(ref.level, id))]
                anchor_idx == AnchorIdx(insert_anchor, start_idx, end_idx)
                h == [level |-> ref.level, id |-> id,
                      permalink |-> CurrentPagePermalink \o <<"#">> \o id,
                      title |-> title]
            IN  IF insert_anchor # "None" /\ ~anchor_ok
                THEN [st1 EXCEPT !.err = TRUE]
                ELSE [st1 EXCEPT
                        !.to_insert =
                            IF insert_anchor # "None"
                            THEN Append(st1.to_insert,
                                        [idx |-> anchor_idx,
                                         event |-> Html(AnchorLink(ref.level, id))])
                            ELSE st1.to_insert,
                        !.headings = Append(st1.headings, h)]

-----------------------------------------------------------------------------
(* utils::vec::InsertMany: insert each (index, element), the indices being *)
(* ascending positions of the vector as it is before any insertion         *)

RECURSIVE InsertManyFrom(_, _, _, _)
InsertManyFrom(rest, elems, last_idx, inserted) ==
    IF elems = <<>> THEN [events |-> inserted \o rest, panic |-> FALSE]
    ELSE LET head_len == elems[1].idx - last_idx
         IN  IF head_len < 0 \/ head_len > Len(rest)
             THEN [events |-> inserted \o rest, panic |-> TRUE]
             ELSE InsertManyFrom(Slice(rest, head_len, Len(rest)), Tail(elems),
                                 elems[1].idx,
                                 inserted \o Slice(rest, 0, head_len)
                                          \o <<elems[1].event>>)

insert_many(events, elem_to_insert) ==
    InsertManyFrom(events, elem_to_insert, 0, <<>>)

-----------------------------------------------------------------------------
(* The heading passes as a state machine, one heading per step *)

HdState == [events |-> hd_events, refs |-> heading_refs,
            anchors |-> inserted_anchors, to_insert |-> anchors_to_insert,
            headings |-> headings, panic |-> FALSE, err |-> FALSE]

\* let mut heading_refs = get_heading_refs(&events); let mut anchors_to_insert = vec![]
\* for the vector `events` left by the cleanup filter and section wrapping
HdEnter(events) ==
    /\ hd_events = events
    /\ \E r \in {get_heading_refs(events)} :
          /\ heading_refs = r.refs
          /\ hd_pc = IF r.panic THEN "panic" ELSE "first"
    /\ inserted_anchors = <<>>
    /\ anchors_to_insert = <<>>
    /\ headings = <<>>
    /\ hd_k = 0

HdIdle ==
    /\ hd_items = <<>>
    /\ hd_events = <<>>
    /\ heading_refs = <<>>
    /\ inserted_anchors = <<>>
    /\ anchors_to_insert = <<>>
    /\ headings = <<>>
    /\ hd_k = 0
    /\ hd_pc = "idle"

FirstPassStep ==
    /\ hd_pc = "first"
    /\ hd_k < Len(heading_refs)
    /\ LET st == FirstPassHeading(HdState, hd_k + 1)
       IN  /\ hd_events' = st.events
           /\ heading_refs' = st.refs
           /\ inserted_anchors' = st.anchors
           /\ hd_pc' = IF st.panic THEN "panic" ELSE "first"
    /\ hd_k' = hd_k + 1
    /\ UNCHANGED <<hd_items, anchors_to_insert, headings>>
    /\ UNCHANGED hd_others

FirstPassEnd ==
    /\ hd_pc = "first"
    /\ hd_k = Len(heading_refs)
    /\ hd_pc' = "second"
    /\ hd_k' = 0
    /\ UNCHANGED <<hd_items, hd_events, heading_refs, inserted_anchors,
                   anchors_to_insert, headings>>
    /\ UNCHANGED hd_others

SecondPassStep ==
    /\ hd_pc = "second"
    /\ hd_k < Len(heading_refs)
    /\ \E anchor_ok \in BOOLEAN :
          /\ context.insert_anchor = "None" => anchor_ok
          /\ LET st == SecondPassHeading(HdState, hd_k + 1,
                                         context.insert_anchor, anchor_ok)
             IN  /\ hd_events' = st.events
                 /\ inserted_anchors' = st.anchors
                 /\ anchors_to_insert' = st.to_insert
                 /\ headings' = st.headings
                 /\ hd_pc' = IF st.panic THEN "panic"
                             ELSE IF st.err THEN "err" ELSE "second"
    /\ hd_k' = hd_k + 1
    /\ UNCHANGED <<hd_items, heading_refs>>
    /\ UNCHANGED hd_others

\* if context.insert_anchor != InsertAnchor::None { events.insert_many(..) }
InsertAnchorsStep ==
    /\ hd_pc = "second"
    /\ hd_k = Len(heading_refs)
    /\ LET r == IF context.insert_anchor # "None"
                THEN insert_many(hd_events, anchors_to_insert)
                ELSE [events |-> hd_events, panic |-> FALSE]
       IN  /\ hd_events' = r.events
           /\ hd_pc' = IF r.panic THEN "panic" ELSE "done"
    /\ UNCHANGED <<hd_items, heading_refs, inserted_anchors, anchors_to_insert,
                   headings, hd_k>>
    /\ UNCHANGED hd_others

HdNext == FirstPassStep \/ FirstPassEnd \/ SecondPassStep \/ InsertAnchorsStep

-----------------------------------------------------------------------------
(* Documents for the heading passes *)

\* a heading as written: its level, the title text, an optional {#id} marker
\* after the title, and whether the heading ends in inline code
HeadingItem(level, title, explicit, code) ==
    [level |-> level, title |-> title, explicit |-> explicit, code |-> code]

ParagraphItem == HeadingItem(0, <<"p">>, <<>>, <<>>)

\* "title {#id}"
WithMarker(title, id) == title \o <<" ", "{", "#">> \o id \o <<"}">>

HdItemEvents(item) ==
    IF item.level = 0
    THEN <<StartParagraph, Text(item.title), EndParagraph>>
    ELSE <<StartHeading(item.level)>>
         \o (IF item.explicit # <<>>
             THEN <<Text(WithMarker(item.title, item.explicit[1]))>>
             ELSE <<Text(item.title)>>)
         \o (IF item.code # <<>> THEN <<Code(item.code)>> ELSE <<>>)
         \o <<EndHeading(item.level)>>

RECURSIVE HdDocEvents(_)
HdDocEvents(items) ==
    IF items = <<>> THEN <<>>
    ELSE HdItemEvents(items[1]) \o HdDocEvents(Tail(items))

HdItemKinds ==
    { ParagraphItem,
      HeadingItem(1, <<"a">>, <<>>, <<>>),
      HeadingItem(2, <<"a">>, <<>>, <<>>),
      HeadingItem(2, <<"a", "-", "1">>, <<>>, <<>>),
      HeadingItem(1, <<"b">>, << <<"a">> >>, <<>>),
      HeadingItem(2, <<"a">>, << <<"a", "-", "1">> >>, <<>>),
      HeadingItem(2, <<"b">>, << <<"a">> >>, <<>>),
      HeadingItem(3, <<"a">>, <<>>, <<"{", "#", "b", "}">>) }

HdDocs == UNION {[1..k -> HdItemKinds] : k \in 0..MaxHeadings}

Contexts ==
    [insert_anchor : {"None", "Left", "Right"},
     section_tags : {"None", "Hierarchical", "Flat"}]

HdInit ==
    /\ context \in Contexts
    /\ hd_items \in HdDocs
    /\ \E wrapped \in {WrapSections(context.section_tags, HdDocEvents(hd_items))} :
          /\ ~wrapped.panic
          /\ \E events \in {wrapped.events} : HdEnter(events)

-----------------------------------------------------------------------------
(* find_anchor applied to drawn inputs *)

FaIdle ==
    /\ fa_anchors = <<>>
    /\ fa_name = <<>>
    /\ fa_result = Faulted("none")
    /\ fa_pc = "idle"

FaIds ==
    { <<"a">>, <<"a", "-", "1">>, <<"a", "-", "2">>, <<"a", "-", "3">>,
      <<"a", "-", "1", "-", "1">>, <<"b">>, <<"a", "-", "0">> }

FaNames == { <<"a">>, <<"a", "-", "1">>, <<"b">> }

\* the lists of distinct used ids, up to MaxAnchors long
FaAnchorLists ==
    {s \in UNION {[1..k -> FaIds] : k \in 0..MaxAnchors} :
        \A i, j \in 1..Len(s) : i # j => s[i] # s[j]}

FaInit ==
    /\ fa_anchors \in FaAnchorLists
    /\ fa_name \in FaNames
    /\ fa_result = Faulted("none")
    /\ fa_pc = "call"

FindAnchorCall ==
    /\ fa_pc = "call"
    /\ \E build \in Builds : fa_result' = find_anchor(build, fa_anchors, fa_name, 0)
    /\ fa_pc' = "returned"
    /\ UNCHANGED <<fa_anchors, fa_name>>
    /\ UNCHANGED fa_others

FaNext == FindAnchorCall

-----------------------------------------------------------------------------
(* config::highlighting: the registries *)

\* OnceCell::get().is_none()
CellIsNone(cell) == cell = <<>>

\* a cell that takes every value it is handed
OnceCellSet_Overwrite(cell, value) == [cell |-> Some(value), ok |-> TRUE]

\* OnceCell::set(value): stores into an empty cell; Err(value) and no change otherwise
OnceCellSet(cell, value) ==
    IF cell = <<>> THEN [cell |-> Some(value), ok |-> TRUE]
    ELSE [cell |-> cell, ok |-> FALSE]

\* BUILTIN_SYNTAX_SET: the language tokens of the packaged grammars
BUILTIN_SYNTAX_SET == {"rust", "ts"}

\* BUILTIN_HIGHLIGHT_THEME_SET: the names of the packaged themes
BUILTIN_HIGHLIGHT_THEME_SET == {"base16-ocean-dark"}

DEFAULT_HIGHLIGHT_THEME == "base16-ocean-dark"

\* what the folders of the site hold: .sublime-syntax tokens and .tmTheme names;
\* a folder that cannot be read is absent from the map
SyntaxFolders == [synA |-> {"mylang"}, synB |-> {"js", "mylang"}]
ThemeFolders == [thA |-> {"custom-a"}, thB |-> {"custom-b"}]

RECURSIVE FoldersLoad(_, _)
FoldersLoad(dirs, folders) ==
    IF dirs = <<>> THEN [ok |-> TRUE, set |-> {}]
    ELSE IF dirs[1] \notin DOMAIN folders THEN [ok |-> FALSE, set |-> {}]
    ELSE LET rest == FoldersLoad(Tail(dirs), folders)
         IN  [ok |-> rest.ok, set |-> folders[dirs[1]] \cup rest.set]

\* Markdown::load_extra_syntaxes: Ok(None) | Ok(Some(set)) | Err
load_extra_syntaxes(cfg) ==
    IF cfg.extra_syntaxes = <<>> THEN [ok |-> TRUE, value |-> <<>>]
    ELSE LET r == FoldersLoad(cfg.extra_syntaxes, SyntaxFolders)
         IN  [ok |-> r.ok, value |-> IF r.ok THEN Some(r.set) ELSE <<>>]

\* Markdown::load_extra_highlight_themes
load_extra_highlight_themes(cfg) ==
    IF cfg.extra_highlight_themes = <<>> THEN [ok |-> TRUE, value |-> <<>>]
    ELSE LET r == FoldersLoad(cfg.extra_highlight_themes, ThemeFolders)
         IN  [ok |-> r.ok, value |-> IF r.ok THEN Some(r.set) ELSE <<>>]

\* a validation that asks the extra registry only when it holds a value
ValidateTheme_EmptyAccepted(cfg, theme_cell) ==
    IF cfg.highlight_theme \notin BUILTIN_HIGHLIGHT_THEME_SET
    THEN IF theme_cell # <<>>
         THEN IF cfg.highlight_theme \notin theme_cell[1] THEN "err" ELSE "ok"
         ELSE "ok"
    ELSE "ok"

\* the validation at the end of init_extra_syntaxes_and_highlight_themes
ValidateTheme(cfg, theme_cell) ==
    IF cfg.highlight_theme \notin BUILTIN_HIGHLIGHT_THEME_SET
    THEN IF theme_cell # <<>>
         THEN IF cfg.highlight_theme \notin theme_cell[1] THEN "err" ELSE "ok"
         ELSE "err"
    ELSE "ok"

\* Markdown::get_highlight_theme: "ok", or "panic" (unwrap of an empty cell,
\* or indexing the theme map with a missing key)
get_highlight_theme(cfg, theme_cell) ==
    IF cfg.highlight_theme \in BUILTIN_HIGHLIGHT_THEME_SET THEN "ok"
    ELSE IF theme_cell = <<>> THEN "panic"
    ELSE IF cfg.highlight_theme \notin theme_cell[1] THEN "panic"
    ELSE "ok"

\* a lookup that hands the normalised token to the extra registry as well
SyntaxSourceOf_NormalisedFirst(language, syntax_cell) ==
    IF language = <<>> THEN "Plain"
    ELSE LET lang == language[1]
             hacked_lang == IF lang = "js" \/ lang = "javascript" THEN "ts" ELSE lang
         IN  IF syntax_cell # <<>> /\ hacked_lang \in syntax_cell[1] THEN "Extra"
             ELSE IF hacked_lang \in BUILTIN_SYNTAX_SET THEN "BuiltIn"
             ELSE "NotFound"

\* a lookup whose source stays Extra when neither registry matches
SyntaxSourceOf_StaleExtra(language, syntax_cell) ==
    IF language = <<>> THEN "Plain"
    ELSE LET lang == language[1]
             hacked_lang == IF lang = "js" \/ lang = "javascript" THEN "ts" ELSE lang
         IN  IF syntax_cell # <<>> /\ lang \in syntax_cell[1] THEN "Extra"
             ELSE IF hacked_lang \in BUILTIN_SYNTAX_SET THEN "BuiltIn"
             ELSE "Extra"

\* SyntaxSource::syntax_set: Extra unwraps the extra registry, every other
\* source takes the built-in one
syntax_set(source, syntax_cell) ==
    IF source = "Extra"
    THEN IF syntax_cell = <<>>
         THEN [panic |-> TRUE, set |-> {}]
         ELSE [panic |-> FALSE, set |-> syntax_cell[1]]
    ELSE [panic |-> FALSE, set |-> BUILTIN_SYNTAX_SET]

\* the SyntaxSource get_highlighter reports for an Option<&str> language
SyntaxSourceOf(language, syntax_cell) ==
    IF language = <<>> THEN "Plain"
    ELSE LET lang == language[1]
             hacked_lang == IF lang = "js" \/ lang = "javascript" THEN "ts" ELSE lang
         IN  IF syntax_cell # <<>> /\ lang \in syntax_cell[1] THEN "Extra"
             ELSE IF hacked_lang \in BUILTIN_SYNTAX_SET THEN "BuiltIn"
             ELSE "NotFound"

-----------------------------------------------------------------------------
(* Threads calling init_extra_syntaxes_and_highlight_themes and            *)
(* get_highlighter; one step per access to a registry                      *)

Threads == 1..MaxThreads

MarkdownConfig(syntaxes, themes, theme) ==
    [extra_syntaxes |-> syntaxes, extra_highlight_themes |-> themes,
     highlight_theme |-> theme]

Configs ==
    { MarkdownConfig(<<>>, <<>>, DEFAULT_HIGHLIGHT_THEME),
      MarkdownConfig(<<"synA">>, <<"thA">>, "custom-a"),
      MarkdownConfig(<<"synB">>, <<"thB">>, "custom-b"),
      MarkdownConfig(<<>>, <<>>, "custom-a"),
      MarkdownConfig(<<"synA">>, <<"gone">>, DEFAULT_HIGHLIGHT_THEME) }

Languages ==
    { <<>>, <<"rust">>, <<"js">>, <<"javascript">>, <<"mylang">>, <<"cobol">> }

\* the config a thread holds when it is in no call and has validated none
NoConfig == MarkdownConfig(<<>>, <<>>, DEFAULT_HIGHLIGHT_THEME)

RegIdle ==
    /\ EXTRA_SYNTAX_SET = <<>>
    /\ EXTRA_HIGHLIGHT_THEME_SET = <<>>
    /\ t_pc = <<>>
    /\ t_cfg = <<>>
    /\ t_lang = <<>>
    /\ t_result = <<>>

RegInit ==
    /\ EXTRA_SYNTAX_SET = <<>>
    /\ EXTRA_HIGHLIGHT_THEME_SET = <<>>
    /\ t_pc = [t \in Threads |-> "idle"]
    /\ t_cfg = [t \in Threads |-> NoConfig]
    /\ t_lang = [t \in Threads |-> <<>>]
    /\ t_result = [t \in Threads |-> "none"]

\* where a call goes after the syntax part: load_extra_highlight_themes(path)?
AfterSyntax(cfg) ==
    LET themes == load_extra_highlight_themes(cfg)
    IN  IF ~themes.ok THEN "idle"
        ELSE IF themes.value # <<>> THEN "theme_check"
        ELSE "validate"

ResultAfterSyntax(cfg, old) ==
    IF ~load_extra_highlight_themes(cfg).ok THEN "init_err" ELSE old

\* entry of init_extra_syntaxes_and_highlight_themes: load_extra_syntaxes(path)?
InitCall(t) ==
    /\ t_pc[t] = "idle"
    /\ \E cfg \in Configs :
          LET syntaxes == load_extra_syntaxes(cfg)
          IN  /\ t_cfg' = [t_cfg EXCEPT ![t] = cfg]
              /\ t_pc' = [t_pc EXCEPT ![t] =
                            IF ~syntaxes.ok THEN "idle"
                            ELSE IF syntaxes.value # <<>> THEN "syntax_check"
                            ELSE AfterSyntax(cfg)]
              /\ t_result' = [t_result EXCEPT ![t] =
                            IF ~syntaxes.ok THEN "init_err"
                            ELSE IF syntaxes.value # <<>> THEN "none"
                            ELSE ResultAfterSyntax(cfg, "none")]
    /\ t_lang' = [t_lang EXCEPT ![t] = <<>>]
    /\ UNCHANGED <<EXTRA_SYNTAX_SET, EXTRA_HIGHLIGHT_THEME_SET>>
    /\ UNCHANGED reg_others

\* if EXTRA_SYNTAX_SET.get().is_none()
SyntaxCheck(t) ==
    /\ t_pc[t] = "syntax_check"
    /\ t_pc' = [t_pc EXCEPT ![t] =
                  IF CellIsNone(EXTRA_SYNTAX_SET) THEN "syntax_set"
                  ELSE AfterSyntax(t_cfg[t])]
    /\ t_result' = [t_result EXCEPT ![t] =
                  IF CellIsNone(EXTRA_SYNTAX_SET) THEN @
                  ELSE ResultAfterSyntax(t_cfg[t], @)]
    /\ UNCHANGED <<EXTRA_SYNTAX_SET, EXTRA_HIGHLIGHT_THEME_SET, t_cfg, t_lang>>
    /\ UNCHANGED reg_others

\* EXTRA_SYNTAX_SET.set(extra_syntax_set).unwrap()
SyntaxSet(t) ==
    /\ t_pc[t] = "syntax_set"
    /\ LET r == OnceCellSet(EXTRA_SYNTAX_SET, load_extra_syntaxes(t_cfg[t]).value[1])
       IN  /\ EXTRA_SYNTAX_SET' = r.cell
           /\ t_pc' = [t_pc EXCEPT ![t] =
                         IF r.ok THEN AfterSyntax(t_cfg[t]) ELSE "init_panic"]
           /\ t_result' = [t_result EXCEPT ![t] =
                         IF r.ok THEN ResultAfterSyntax(t_cfg[t], @) ELSE "panic"]
    /\ UNCHANGED <<EXTRA_HIGHLIGHT_THEME_SET, t_cfg, t_lang>>
    /\ UNCHANGED reg_others

\* if EXTRA_HIGHLIGHT_THEME_SET.get().is_none()
ThemeCheck(t) ==
    /\ t_pc[t] = "theme_check"
    /\ t_pc' = [t_pc EXCEPT ![t] =
                  IF CellIsNone(EXTRA_HIGHLIGHT_THEME_SET) THEN "theme_set"
                  ELSE "validate"]
    /\ UNCHANGED <<EXTRA_SYNTAX_SET, EXTRA_HIGHLIGHT_THEME_SET, t_cfg, t_lang,
                   t_result>>
    /\ UNCHANGED reg_others

\* EXTRA_HIGHLIGHT_THEME_SET.set(extra_highlight_theme_set).unwrap()
ThemeSet(t) ==
    /\ t_pc[t] = "theme_set"
    /\ LET r == OnceCellSet(EXTRA_HIGHLIGHT_THEME_SET,
                            load_extra_highlight_themes(t_cfg[t]).value[1])
       IN  /\ EXTRA_HIGHLIGHT_THEME_SET' = r.cell
           /\ t_pc' = [t_pc EXCEPT ![t] = IF r.ok THEN "validate" ELSE "init_panic"]
           /\ t_result' = [t_result EXCEPT ![t] = IF r.ok THEN @ ELSE "panic"]
    /\ UNCHANGED <<EXTRA_SYNTAX_SET, t_cfg, t_lang>>
    /\ UNCHANGED reg_others

\* validate that the chosen highlight_theme exists; Ok(()) or bail!
Validate(t) ==
    /\ t_pc[t] = "validate"
    /\ t_pc' = [t_pc EXCEPT ![t] = "idle"]
    /\ t_result' = [t_result EXCEPT ![t] =
                      IF ValidateTheme(t_cfg[t], EXTRA_HIGHLIGHT_THEME_SET) = "ok"
                      THEN "init_ok" ELSE "init_err"]
    /\ UNCHANGED <<EXTRA_SYNTAX_SET, EXTRA_HIGHLIGHT_THEME_SET, t_cfg, t_lang>>
    /\ UNCHANGED reg_others

\* get_highlighter: let theme = config.markdown.get_highlight_theme()
HighlighterTheme(t) ==
    /\ t_pc[t] = "idle"
    /\ \E cfg \in Configs :
          /\ t_cfg' = [t_cfg EXCEPT ![t] = cfg]
          /\ LET theme == get_highlight_theme(cfg, EXTRA_HIGHLIGHT_THEME_SET)
             IN  /\ t_pc' = [t_pc EXCEPT ![t] =
                               IF theme = "ok" THEN "highlighter_syntax"
                               ELSE "render_panic"]
                 /\ t_result' = [t_result EXCEPT ![t] =
                               IF theme = "ok" THEN "none" ELSE "panic"]
    /\ t_lang' = [t_lang EXCEPT ![t] = <<>>]
    /\ UNCHANGED <<EXTRA_SYNTAX_SET, EXTRA_HIGHLIGHT_THEME_SET>>
    /\ UNCHANGED reg_others

\* get_highlighter: the lookup of the language and the source reported; the
\* language argument is drawn here, where it is first read
HighlighterSyntax(t) ==
    /\ t_pc[t] = "highlighter_syntax"
    /\ \E language \in Languages :
          /\ t_lang' = [t_lang EXCEPT ![t] = language]
          /\ t_result' = [t_result EXCEPT ![t] =
                            SyntaxSourceOf(language, EXTRA_SYNTAX_SET)]
    /\ t_pc' = [t_pc EXCEPT ![t] = "idle"]
    /\ t_cfg' = [t_cfg EXCEPT ![t] = NoConfig]
    /\ UNCHANGED <<EXTRA_SYNTAX_SET, EXTRA_HIGHLIGHT_THEME_SET>>
    /\ UNCHANGED reg_others

RegNext ==
    \E t \in Threads :
        \/ InitCall(t)
        \/ SyntaxCheck(t)
        \/ SyntaxSet(t)
        \/ ThemeCheck(t)
        \/ ThemeSet(t)
        \/ Validate(t)
        \/ HighlighterTheme(t)
        \/ HighlighterSyntax(t)

-----------------------------------------------------------------------------
(* markdown_to_html: the documents it is run on *)

\* crate::shortcode::SHORTCODE_PLACEHOLDER: what stands in the content in the
\* place of a shortcode call; the call's span is the range it occupies
SHORTCODE_PLACEHOLDER == Chars("@@ZOLA_SC_PLACEHOLDER@@")

MORE_MARKER == Chars("<!-- more -->")

CONTINUE_READING == Chars("<span id=\"continue-reading\"></span>")

Letters == <<"a", "b", "c", "d", "e", "f", "g", "h">>

\* the content outside shortcode calls: n characters from source offset off,
\* a character being told by its offset
Plain(off, n) == [i \in 1..n |-> Letters[((off + i - 1) % Len(Letters)) + 1]]

\* a text fragment written as the lengths of its plain pieces, a shortcode
\* call standing between each two: <<g0, g1, .., gk>> has k calls
RECURSIVE FragChars(_, _)
FragChars(gaps, off) ==
    IF gaps = <<>> THEN <<>>
    ELSE Plain(off, gaps[1])
         \o (IF Len(gaps) > 1
             THEN SHORTCODE_PLACEHOLDER
                  \o FragChars(Tail(gaps),
                               off + gaps[1] + Len(SHORTCODE_PLACEHOLDER))
             ELSE <<>>)

\* the spans [start, end) of the calls of such a fragment
RECURSIVE FragSpans(_, _)
FragSpans(gaps, off) ==
    IF Len(gaps) <= 1 THEN <<>>
    ELSE <<[start |-> off + gaps[1],
            end |-> off + gaps[1] + Len(SHORTCODE_PLACEHOLDER)]>>
         \o FragSpans(Tail(gaps), off + gaps[1] + Len(SHORTCODE_PLACEHOLDER))

StartLink(link_type, link, title) ==
    [tag |-> "StartLink", link_type |-> link_type, link |-> link, title |-> title]
EndLink == [tag |-> "EndLink"]
StartCodeBlock == [tag |-> "StartCodeBlock"]
EndCodeBlock == [tag |-> "EndCodeBlock"]

\* one (event, range) pair of the offset iterator
Ranged(event, start, end) == [event |-> event, start |-> start, end |-> end]

\* the blocks a document is written from
Block(kind, gaps, more, link) ==
    [kind |-> kind, gaps |-> gaps, more |-> more, link |-> link]

\* the opening tag that makes a line raw markup up to the next blank line
HTML_BLOCK_OPEN == Chars("<div>")

FENCE == Chars("~~~\n")

\* what the tokenizer yields for one block that begins at byte offset off:
\* the block's characters, its (event, range) pairs and the spans of its calls
BlockLayout(b, off) ==
    IF b.kind = "para" THEN
        \* "text\n": a paragraph of one text fragment
        LET frag == FragChars(b.gaps, off)
            n == Len(frag)
        IN  [chars |-> frag \o <<"\n">>,
             pairs |-> <<Ranged(StartParagraph, off, off + n + 1),
                         Ranged(Text(frag), off, off + n),
                         Ranged(EndParagraph, off, off + n + 1)>>,
             spans |-> FragSpans(b.gaps, off)]
    ELSE IF b.kind = "html" THEN
        \* "<div>..\n": one line of raw markup, its line end included
        LET head == HTML_BLOCK_OPEN \o (IF b.more THEN MORE_MARKER ELSE <<>>)
            frag == head \o FragChars(b.gaps, off + Len(head)) \o <<"\n">>
            n == Len(frag)
        IN  [chars |-> frag,
             pairs |-> <<Ranged(Html(frag), off, off + n)>>,
             spans |-> FragSpans(b.gaps, off + Len(head))]
    ELSE IF b.kind = "sentinel" THEN
        \* raw markup that holds the text of CONTINUE_READING as written
        LET frag == HTML_BLOCK_OPEN \o CONTINUE_READING \o <<"\n">>
            n == Len(frag)
        IN  [chars |-> frag,
             pairs |-> <<Ranged(Html(frag), off, off + n)>>,
             spans |-> <<>>]
    ELSE IF b.kind = "code" THEN
        \* "~~~\ncode\n~~~\n": a fenced code block; its range ends before
        \* the line end of the closing fence
        LET at == off + Len(FENCE)
            frag == FragChars(b.gaps, at) \o <<"\n">>
            n == Len(frag)
            end == at + n + Len(FENCE) - 1
        IN  [chars |-> FENCE \o frag \o FENCE,
             pairs |-> <<Ranged(StartCodeBlock, off, end),
                         Ranged(Text(frag), at, at + n),
                         Ranged(EndCodeBlock, off, end)>>,
             spans |-> FragSpans(b.gaps, at)]
    ELSE IF b.kind = "heading" THEN
        \* "# title\n"
        LET title == Plain(off + 2, b.gaps[1])
            n == Len(title) + 2
        IN  [chars |-> <<"#", " ">> \o title \o <<"\n">>,
             pairs |-> <<Ranged(StartHeading(1), off, off + n + 1),
                         Ranged(Text(title), off + 2, off + n),
                         Ranged(EndHeading(1), off, off + n + 1)>>,
             spans |-> <<>>]
    ELSE IF b.kind = "Email" THEN
        \* "<address>\n": a paragraph holding one autolink, whose text is
        \* the address
        LET n == Len(b.link) + 2
        IN  [chars |-> <<"<">> \o b.link \o <<">", "\n">>,
             pairs |-> <<Ranged(StartParagraph, off, off + n + 1),
                         Ranged(StartLink(b.kind, b.link, <<>>), off, off + n),
                         Ranged(Text(b.link), off + 1, off + n - 1),
                         Ranged(EndLink, off, off + n),
                         Ranged(EndParagraph, off, off + n + 1)>>,
             spans |-> <<>>]
    ELSE
        \* "[t](link)\n" (kind "Inline"): a paragraph holding one link
        LET t == Plain(off + 1, 1)
            n == Len(b.link) + 5
        IN  [chars |-> <<"[">> \o t \o <<"]", "(">> \o b.link \o <<")", "\n">>,
             pairs |-> <<Ranged(StartParagraph, off, off + n + 1),
                         Ranged(StartLink(b.kind, b.link, <<>>), off, off + n),
                         Ranged(Text(t), off + 1, off + 2),
                         Ranged(EndLink, off, off + n),
                         Ranged(EndParagraph, off, off + n + 1)>>,
             spans |-> <<>>]

\* the document: its blocks, a blank line between each two
RECURSIVE DocLayout(_, _)
DocLayout(blocks, off) ==
    IF blocks = <<>> THEN [chars |-> <<>>, pairs |-> <<>>, spans |-> <<>>]
    ELSE LET b == BlockLayout(blocks[1], off)
             blank == IF Len(blocks) > 1 THEN <<"\n">> ELSE <<>>
             rest == DocLayout(Tail(blocks),
                               off + Len(b.chars) + Len(blank))
         IN  [chars |-> b.chars \o blank \o rest.chars,
              pairs |-> b.pairs \o rest.pairs,
              spans |-> b.spans \o rest.spans]

\* the calls the caller supplies: one per placeholder, in source order; the
\* template engine fails on call number failing (0: on none)
Shortcode(i, span, failing) ==
    [name |-> Chars("sc") \o Dec(i), span |-> span, ok |-> i # failing]

Shortcodes(spans, failing) ==
    [i \in 1..Len(spans) |-> Shortcode(i, spans[i], failing)]

GapLens == {0, 2}

Frags == UNION {[1..(k + 1) -> GapLens] : k \in 0..MaxShortcodes} \ { <<0>> }

Links ==
    { <<>>,
      Chars("@/ok.md"),
      Chars("@/broken.md"),
      Chars("@/gone.md"),
      Chars("https://x.org/?a&b'c\"d"),
      Chars("#frag") }

RenderBlocks ==
    {Block("para", g, FALSE, <<>>) : g \in Frags}
    \cup {Block("html", g, FALSE, <<>>) : g \in Frags}
    \cup {Block("html", g, TRUE, <<>>) : g \in {<<0>>, <<0, 0>>}}
    \cup {Block("code", g, FALSE, <<>>) : g \in {<<2>>, <<0, 0>>}}
    \cup {Block("sentinel", <<>>, FALSE, <<>>)}
    \cup {Block("heading", <<1>>, FALSE, <<>>)}
    \cup {Block("Inline", <<>>, FALSE, l) : l \in Links}
    \cup {Block("Email", <<>>, FALSE, Chars("a@b.c"))}

RECURSIVE CallsOf(_)
CallsOf(blocks) ==
    IF blocks = <<>> THEN 0
    ELSE (IF blocks[1].gaps = <<>> THEN 0 ELSE Len(blocks[1].gaps) - 1)
         + CallsOf(Tail(blocks))

RenderDocs ==
    {d \in UNION {[1..k -> RenderBlocks] : k \in 1..MaxBlocks} :
        CallsOf(d) <= MaxShortcodes}

-----------------------------------------------------------------------------
(* Links: is_external_link, fix_link, construct_external_link_tag *)

StartsWith(s, prefix) ==
    Len(s) >= Len(prefix) /\ SubSeq(s, 1, Len(prefix)) = prefix

\* only the secure scheme taken as external
is_external_link_HttpsOnly(link) == StartsWith(link, Chars("https:"))

is_external_link(link) ==
    StartsWith(link, Chars("http:")) \/ StartsWith(link, Chars("https:"))

\* context.permalinks: the pages of the site
Permalinks == { Chars("ok.md") }

\* utils::site::resolve_internal_link: "@/path#anchor" looked up by its path
resolve_internal_link(link, permalinks) ==
    LET target == Slice(link, Len(Chars("@/")), Len(link))
        hash == FindSub(target, <<"#">>)
        md_path == IF hash = -1 THEN target ELSE Slice(target, 0, hash)
        anchor == IF hash = -1 THEN <<>>
                  ELSE Some(Slice(target, hash + 1, Len(target)))
    IN  IF md_path \in permalinks
        THEN [ok |-> TRUE, md_path |-> md_path, anchor |-> anchor,
              permalink |-> Chars("https://site/") \o target]
        ELSE [ok |-> FALSE, md_path |-> md_path, anchor |-> anchor,
              permalink |-> <<>>]

RelativeLinkNotFound(link) == Chars("Relative link ") \o link \o Chars(" not found.")

\* fix_link: the link to emit and the inventories as it leaves them
fix_link(link_type, link, ctx, internal, external) ==
    LET keep == [ok |-> TRUE, link |-> link, internal_links |-> internal,
                 external_links |-> external]
    IN  IF link_type = "Email" THEN keep
        ELSE IF StartsWith(link, Chars("@/")) THEN
            LET resolved == resolve_internal_link(link, Permalinks)
            IN  IF resolved.ok
                THEN [keep EXCEPT
                        !.link = resolved.permalink,
                        !.internal_links =
                            Append(internal, [path |-> resolved.md_path,
                                              anchor |-> resolved.anchor])]
                ELSE [keep EXCEPT !.ok = FALSE,
                                  !.link = RelativeLinkNotFound(link)]
        ELSE IF is_external_link(link)
        THEN [keep EXCEPT !.external_links = Append(external, link)]
        ELSE IF StartsWith(link, <<"#">>) THEN
            IF ctx.current_page_path # <<>>
            THEN [keep EXCEPT
                    !.link = CurrentPagePermalink \o link,
                    !.internal_links =
                        Append(internal,
                               [path |-> ctx.current_page_path[1],
                                anchor |-> Some(Slice(link, 1, Len(link)))])]
            ELSE keep
        ELSE keep

has_external_link_tweaks(ctx) ==
    \/ ctx.external_links_target_blank
    \/ ctx.external_links_no_follow
    \/ ctx.external_links_no_referrer

\* [&str]::join(" ")
RECURSIVE JoinSpace(_)
JoinSpace(list) ==
    IF list = <<>> THEN <<>>
    ELSE IF Len(list) = 1 THEN list[1]
    ELSE list[1] \o <<" ">> \o JoinSpace(Tail(list))

\* the tag with target written before rel and noopener left out
construct_external_link_tag_TargetFirst(ctx, url, title) ==
    LET title_attr == IF title = <<>> THEN <<>>
                      ELSE Chars("title=\"") \o title \o Chars("\" ")
        rel_opts == (IF ctx.external_links_no_follow
                     THEN << Chars("nofollow") >> ELSE <<>>)
                    \o (IF ctx.external_links_no_referrer
                        THEN << Chars("noreferrer") >> ELSE <<>>)
        target == IF ctx.external_links_target_blank
                  THEN Chars("target=\"_blank\" ") ELSE <<>>
        rel == IF rel_opts = <<>> THEN <<>>
               ELSE Chars("rel=\"") \o JoinSpace(rel_opts) \o Chars("\" ")
    IN  Chars("<a ") \o target \o rel \o title_attr
        \o Chars("href=\"") \o url \o Chars("\">")

construct_external_link_tag(ctx, url, title) ==
    LET title_attr == IF title = <<>> THEN <<>>
                      ELSE Chars("title=\"") \o title \o Chars("\" ")
        rel_opts == (IF ctx.external_links_target_blank
                     THEN << Chars("noopener") >> ELSE <<>>)
                    \o (IF ctx.external_links_no_follow
                        THEN << Chars("nofollow") >> ELSE <<>>)
                    \o (IF ctx.external_links_no_referrer
                        THEN << Chars("noreferrer") >> ELSE <<>>)
        target == IF ctx.external_links_target_blank
                  THEN Chars("target=\"_blank\" ") ELSE <<>>
        rel == IF rel_opts = <<>> THEN <<>>
               ELSE Chars("rel=\"") \o JoinSpace(rel_opts) \o Chars("\" ")
    IN  Chars("<a ") \o rel \o target \o title_attr
        \o Chars("href=\"") \o url \o Chars("\">")

\* pulldown_cmark::escape::escape_html: the characters HTML gives a meaning
\* are written as entities
Escape(text) ==
    Concat([i \in 1..Len(text) |->
        IF text[i] = "&" THEN Chars("&amp;")
        ELSE IF text[i] = "<" THEN Chars("&lt;")
        ELSE IF text[i] = ">" THEN Chars("&gt;")
        ELSE IF text[i] = "\"" THEN Chars("&quot;")
        ELSE <<text[i]>>])

\* the characters escape_href writes as they are (HREF_SAFE)
HrefSafe ==
    {Lower[i] : i \in 1..Len(Lower)} \cup {Upper[i] : i \in 1..Len(Upper)}
    \cup {Digits[i] : i \in 1..Len(Digits)}
    \cup {"!", "#", "$", "%", "(", ")", "*", "+", ",", "-", ".", "/", ":",
          ";", "=", "?", "@", "_", "~"}

PercentByte(b) == <<"%", HexDigits[(b \div 16) + 1], HexDigits[(b % 16) + 1]>>

PercentBytes(bytes) == Concat([i \in 1..Len(bytes) |-> PercentByte(bytes[i])])

\* pulldown_cmark::escape::escape_href: '&' and the apostrophe are written as
\* entities, every other byte outside HREF_SAFE as %XX
escape_href(link) ==
    Concat([i \in 1..Len(link) |->
        IF link[i] \in HrefSafe THEN <<link[i]>>
        ELSE IF link[i] = "&" THEN Chars("&amp;")
        ELSE IF link[i] = "'" THEN Chars("&#x27;")
        ELSE PercentBytes(Utf8(CodePoint(link[i])))])

-----------------------------------------------------------------------------
(* markdown_to_html: the handlers of the event loop.  Each takes the       *)
(* (event, range) pair and the loop's mutable state and gives the state    *)
(* the iteration leaves                                                    *)

contains_shortcode(txt) == FindSub(txt, SHORTCODE_PLACEHOLDER) # -1

MissingUrl == Chars("There is a link that is missing a URL")

AnchorTemplateFailed == Chars("Failed to render anchor link template")

\* Shortcode::render through the template engine: the markup, or its error
ShortcodeRender(shortcode) ==
    IF shortcode.ok
    THEN [ok |-> TRUE, value |-> <<"<">> \o shortcode.name \o <<">">>]
    ELSE [ok |-> FALSE,
          value |-> Chars("Failed to render ") \o shortcode.name \o Chars(" shortcode")]

\* a list kept in the order it was supplied
Reversed_Same(list) == list

\* html_shortcodes.into_iter().rev().collect()
Reversed(list) == [i \in 1..Len(list) |-> list[Len(list) + 1 - i]]

\* html_shortcodes.pop(): the Option popped and the vector left
PopShortcode(stack) ==
    IF stack = <<>> THEN [next |-> <<>>, stack |-> <<>>]
    ELSE [next |-> Some(Last(stack)), stack |-> Pop(stack)]

\* CodeBlock::new(..): the opening markup; CodeBlock::highlight(text)
CodeBlockBegin == Chars("<pre><code>")
Highlight(text) == Escape(text)

RenderState ==
    [events |-> r_events, next |-> next_shortcode, stack |-> html_shortcodes,
     error |-> r_error, code_block |-> code_block,
     internal_links |-> internal_links, external_links |-> external_links,
     stop_next_end_p |-> stop_next_end_p, has_summary |-> has_summary,
     rendered |-> rendered, panic |-> FALSE]

Push(st, event) == [st EXCEPT !.events = Append(@, event)]

\* the loop taking the next call from the list after a failed render
RECURSIVE ShortcodeLoop_KeepsGoing(_, _, _, _, _)
ShortcodeLoop_KeepsGoing(tag, new_text, range_start, range_end, st) ==
    IF st.next = <<>>
    THEN Push(st, [tag |-> tag, text |-> new_text])
    ELSE
    LET shortcode == st.next[1]
        sc_span == shortcode.span
    IN  IF ~(range_start <= sc_span.start /\ sc_span.start < range_end)
        THEN Push(st, [tag |-> tag, text |-> new_text])
        ELSE
        LET cut == sc_span.start - range_start
            skip == sc_span.end - range_start
        IN  IF range_start # sc_span.start /\ cut > Len(new_text)
            THEN [st EXCEPT !.panic = TRUE]
            ELSE
            LET st1 == IF range_start # sc_span.start
                       THEN Push(st, [tag |-> tag,
                                      text |-> Slice(new_text, 0, cut)])
                       ELSE st
                st2 == [st1 EXCEPT !.next = <<>>,
                                   !.rendered = Append(@, shortcode)]
                s == ShortcodeRender(shortcode)
                popped == PopShortcode(st2.stack)
            IN  IF ~s.ok
                THEN Push([st2 EXCEPT !.error = Some(s.value),
                                      !.next = popped.next,
                                      !.stack = popped.stack],
                          [tag |-> tag, text |-> new_text])
                ELSE IF skip > Len(new_text)
                THEN [Push(st2, Html(s.value)) EXCEPT !.panic = TRUE]
                ELSE ShortcodeLoop_KeepsGoing(
                         tag, Slice(new_text, skip, Len(new_text)),
                         skip, range_end,
                         [Push(st2, Html(s.value)) EXCEPT
                             !.next = popped.next,
                             !.stack = popped.stack])

\* the `loop { .. }` of the Text and Html arms and the push that follows it;
\* tag is the kind of event pushed, range_start is range.start as the loop
\* has left it
RECURSIVE ShortcodeLoop(_, _, _, _, _)
ShortcodeLoop(tag, new_text, range_start, range_end, st) ==
    IF st.next = <<>>
    THEN Push(st, [tag |-> tag, text |-> new_text])
    ELSE
    LET shortcode == st.next[1]
        sc_span == shortcode.span
    IN  IF ~(range_start <= sc_span.start /\ sc_span.start < range_end)
        THEN Push(st, [tag |-> tag, text |-> new_text])
        ELSE
        LET cut == sc_span.start - range_start
            skip == sc_span.end - range_start
        IN  IF range_start # sc_span.start /\ cut > Len(new_text)
            THEN [st EXCEPT !.panic = TRUE]
            ELSE
            LET st1 == IF range_start # sc_span.start
                       THEN Push(st, [tag |-> tag,
                                      text |-> Slice(new_text, 0, cut)])
                       ELSE st
                st2 == [st1 EXCEPT !.next = <<>>,
                                   !.rendered = Append(@, shortcode)]
                s == ShortcodeRender(shortcode)
            IN  IF ~s.ok
                THEN Push([st2 EXCEPT !.error = Some(s.value)],
                          [tag |-> tag, text |-> new_text])
                ELSE IF skip > Len(new_text)
                THEN [Push(st2, Html(s.value)) EXCEPT !.panic = TRUE]
                ELSE
                LET popped == PopShortcode(st2.stack)
                IN  ShortcodeLoop(tag, Slice(new_text, skip, Len(new_text)),
                                  skip, range_end,
                                  [Push(st2, Html(s.value)) EXCEPT
                                      !.next = popped.next,
                                      !.stack = popped.stack])

\* Event::Text(text); render_emoji is off
OnText(cur, st) ==
    IF st.code_block # <<>>
    THEN Push(st, Html(Highlight(cur.event.text)))
    ELSE IF ~contains_shortcode(cur.event.text)
    THEN Push(st, cur.event)
    ELSE ShortcodeLoop("Text", cur.event.text, cur.start, cur.end, st)

\* Event::Start(Tag::CodeBlock(kind))
OnStartCodeBlock(cur, st) ==
    Push([st EXCEPT !.code_block = Some("block")], Html(CodeBlockBegin))

\* Event::End(Tag::CodeBlock(_))
OnEndCodeBlock(cur, st) ==
    Push([st EXCEPT !.code_block = <<>>], Html(Chars("</code></pre>\n")))

\* the empty-link arm pushing an empty fragment, as the broken-link arm does
OnEmptyLink_Dropped(cur, st) ==
    Push([st EXCEPT !.error = Some(MissingUrl)], Html(<<>>))

\* Event::Start(Tag::Link(link_type, link, title)) if link.is_empty()
OnEmptyLink(cur, st) ==
    Push([st EXCEPT !.error = Some(MissingUrl)],
         StartLink(cur.event.link_type, <<"#">>, cur.event.title))

\* the link arm with the error of a failed lookup not kept
OnLink_ErrorDropped(cur, st, ctx) ==
    LET link == cur.event.link
        fixed == fix_link(cur.event.link_type, link, ctx,
                          st.internal_links, st.external_links)
    IN  IF ~fixed.ok
        THEN Push(st, Html(<<>>))
        ELSE Push([st EXCEPT !.internal_links = fixed.internal_links,
                             !.external_links = fixed.external_links],
                  IF is_external_link(link) /\ has_external_link_tweaks(ctx)
                  THEN Html(construct_external_link_tag(ctx, escape_href(link),
                                                        cur.event.title))
                  ELSE StartLink(cur.event.link_type, fixed.link,
                                 cur.event.title))

\* Event::Start(Tag::Link(link_type, link, title))
OnLink(cur, st, ctx) ==
    LET link == cur.event.link
        fixed == fix_link(cur.event.link_type, link, ctx,
                          st.internal_links, st.external_links)
    IN  IF ~fixed.ok
        THEN Push([st EXCEPT !.error = Some(fixed.link)], Html(<<>>))
        ELSE Push([st EXCEPT !.internal_links = fixed.internal_links,
                             !.external_links = fixed.external_links],
                  IF is_external_link(link) /\ has_external_link_tweaks(ctx)
                  THEN Html(construct_external_link_tag(ctx, escape_href(link),
                                                        cur.event.title))
                  ELSE StartLink(cur.event.link_type, fixed.link,
                                 cur.event.title))

\* Event::Start(Tag::Paragraph)
OnStartParagraph(cur, st, content) ==
    IF /\ st.next # <<>>
       /\ st.next[1].span.start = cur.start
       /\ st.next[1].span.end - st.next[1].span.start
              = ByteLen(Trim(Slice(content, cur.start, cur.end)))
    THEN Push([st EXCEPT !.stop_next_end_p = TRUE], Html(<<>>))
    ELSE Push(st, cur.event)

\* the paragraph-end arm with the flag left set
OnEndParagraph_Sticky(cur, st) ==
    IF st.stop_next_end_p
    THEN Push(st, Html(<<>>))
    ELSE Push(st, cur.event)

\* Event::End(Tag::Paragraph)
OnEndParagraph(cur, st) ==
    IF st.stop_next_end_p
    THEN Push([st EXCEPT !.stop_next_end_p = FALSE], Html(<<>>))
    ELSE Push(st, cur.event)

\* Event::Html(text)
OnHtml(cur, st) ==
    IF FindSub(cur.event.text, MORE_MARKER) # -1
    THEN Push([st EXCEPT !.has_summary = TRUE], Html(CONTINUE_READING))
    ELSE IF ~contains_shortcode(cur.event.text)
    THEN Push(st, cur.event)
    ELSE ShortcodeLoop("Html", cur.event.text, cur.start, cur.end, st)

\* a filter that drops every raw-markup event, empty or not
RECURSIVE WithoutEmpty_AllRaw(_)
WithoutEmpty_AllRaw(list) ==
    IF list = <<>> THEN <<>>
    ELSE IF list[1].tag = "Html" \/ (list[1].tag = "Text" /\ list[1].text = <<>>)
    THEN WithoutEmpty_AllRaw(Tail(list))
    ELSE <<list[1]>> \o WithoutEmpty_AllRaw(Tail(list))

\* the filter after the loop: empty Text and Html events are dropped
RECURSIVE WithoutEmpty(_)
WithoutEmpty(list) ==
    IF list = <<>> THEN <<>>
    ELSE IF list[1].tag \in {"Text", "Html"} /\ list[1].text = <<>>
    THEN WithoutEmpty(Tail(list))
    ELSE <<list[1]>> \o WithoutEmpty(Tail(list))

-----------------------------------------------------------------------------
(* markdown_to_html as a state machine: one iteration of the event loop    *)
(* per step, then the cleanup and section wrapping, the heading passes     *)
(* (the actions above) and the return                                      *)

\* Result<Rendered>: Err(e), or Ok(Rendered { body, summary_len, .. }) with
\* the two link inventories; "none" before the return, "panic" after a fault
NoResult ==
    [kind |-> "none", error |-> <<>>, body |-> <<>>, summary_len |-> <<>>,
     internal_links |-> <<>>, external_links |-> <<>>]
Panicked == [NoResult EXCEPT !.kind = "panic"]
Err(e) == [NoResult EXCEPT !.kind = "Err", !.error = e]
Ok(body, summary_len, internal, external) ==
    [kind |-> "Ok", error |-> <<>>, body |-> body, summary_len |-> summary_len,
     internal_links |-> internal, external_links |-> external]

EndsWithNewline(s) == s # <<>> /\ Last(s) = "\n"

\* cmark::html (HtmlWriter): what the serializer writes for one event when
\* end_newline tells whether its output so far ends a line
EventHtml(e, end_newline) ==
    IF e.tag = "Text" THEN Escape(e.text)
    ELSE IF e.tag = "Html" THEN e.text
    ELSE IF e.tag = "Code" THEN Chars("<code>") \o Escape(e.text) \o Chars("</code>")
    ELSE IF e.tag = "StartParagraph"
    THEN (IF end_newline THEN <<>> ELSE <<"\n">>) \o Chars("<p>")
    ELSE IF e.tag = "EndParagraph" THEN Chars("</p>\n")
    ELSE IF e.tag = "StartHeading"
    THEN (IF end_newline THEN <<>> ELSE <<"\n">>)
         \o Chars("<h") \o Dec(e.level) \o <<">">>
    ELSE IF e.tag = "EndHeading" THEN Chars("</h") \o Dec(e.level) \o <<">", "\n">>
    ELSE IF e.tag = "StartLink"
    THEN Chars("<a href=\"")
         \o (IF e.link_type = "Email" THEN Chars("mailto:") ELSE <<>>)
         \o escape_href(e.link)
         \o (IF e.title # <<>>
             THEN Chars("\" title=\"") \o Escape(e.title) ELSE <<>>)
         \o Chars("\">")
    ELSE IF e.tag = "EndLink" THEN Chars("</a>")
    ELSE <<>>

\* end_newline as the event leaves it
EndNewline(e, end_newline) ==
    IF e.tag = "Text" THEN EndsWithNewline(e.text)
    ELSE IF e.tag = "Html"
    THEN (IF e.text = <<>> THEN end_newline ELSE EndsWithNewline(e.text))
    ELSE e.tag \in {"EndParagraph", "EndHeading"}

RECURSIVE HtmlWriter(_, _)
HtmlWriter(list, end_newline) ==
    IF list = <<>> THEN <<>>
    ELSE EventHtml(list[1], end_newline)
         \o HtmlWriter(Tail(list), EndNewline(list[1], end_newline))

\* cmark::html::push_html into the empty buffer
push_html(list) == HtmlWriter(list, TRUE)

\* if has_summary { html.find(CONTINUE_READING) } else { None }
SummaryLen(summary_seen, body) ==
    IF summary_seen /\ FindSub(body, CONTINUE_READING) # -1
    THEN Some(FindSub(body, CONTINUE_READING))
    ELSE <<>>

NoRenderContext ==
    [current_page_path |-> <<>>, external_links_target_blank |-> FALSE,
     external_links_no_follow |-> FALSE, external_links_no_referrer |-> FALSE]

RenderContexts ==
    [current_page_path : {<<>>, Some(Chars("page.md"))},
     external_links_target_blank : BOOLEAN,
     external_links_no_follow : {FALSE},
     external_links_no_referrer : {FALSE}]

RenderIdle ==
    /\ r_content = <<>>
    /\ r_parser = <<>>
    /\ r_shortcodes = <<>>
    /\ r_ctx = NoRenderContext
    /\ r_idx = 0
    /\ html_shortcodes = <<>>
    /\ next_shortcode = <<>>
    /\ r_events = <<>>
    /\ r_error = <<>>
    /\ code_block = <<>>
    /\ internal_links = <<>>
    /\ external_links = <<>>
    /\ stop_next_end_p = FALSE
    /\ has_summary = FALSE
    /\ rendered = <<>>
    /\ suppressed = {}
    /\ r_pc = "idle"
    /\ r_result = NoResult

\* the state at the head of the event loop (lines 257-287), for a drawn
\* document, call list and context
RenderInit ==
    /\ context \in Contexts
    /\ r_ctx \in RenderContexts
    /\ \E d \in RenderDocs :
         \E lay \in {DocLayout(d, 0)} :
           \E failing \in 0..Len(lay.spans) :
              /\ r_content = lay.chars
              /\ r_parser = lay.pairs
              /\ r_shortcodes = Shortcodes(lay.spans, failing)
              /\ \E popped \in {PopShortcode(Reversed(Shortcodes(lay.spans,
                                                                 failing)))} :
                    /\ html_shortcodes = popped.stack
                    /\ next_shortcode = popped.next
    /\ r_idx = 0
    /\ r_events = <<>>
    /\ r_error = <<>>
    /\ code_block = <<>>
    /\ internal_links = <<>>
    /\ external_links = <<>>
    /\ stop_next_end_p = FALSE
    /\ has_summary = FALSE
    /\ rendered = <<>>
    /\ suppressed = {}
    /\ r_pc = "loop"
    /\ r_result = NoResult

\* the pair the iterator yields next
Cur == r_parser[r_idx + 1]

AtEvent(tags) ==
    /\ r_pc = "loop"
    /\ r_idx < Len(r_parser)
    /\ Cur.event.tag \in tags

\* the end of one iteration: the state the handler leaves
Commit(st) ==
    /\ r_events' = st.events
    /\ next_shortcode' = st.next
    /\ html_shortcodes' = st.stack
    /\ r_error' = st.error
    /\ code_block' = st.code_block
    /\ internal_links' = st.internal_links
    /\ external_links' = st.external_links
    /\ stop_next_end_p' = st.stop_next_end_p
    /\ has_summary' = st.has_summary
    /\ rendered' = st.rendered
    /\ suppressed' = IF /\ Cur.event.tag \in {"StartParagraph", "EndParagraph"}
                        /\ Last(st.events) = Html(<<>>)
                     THEN suppressed \cup {r_idx + 1}
                     ELSE suppressed
    /\ r_pc' = IF st.panic THEN "panic" ELSE "loop"
    /\ r_result' = IF st.panic THEN Panicked ELSE r_result
    /\ r_idx' = r_idx + 1
    /\ UNCHANGED <<r_content, r_parser, r_shortcodes, r_ctx>>
    /\ UNCHANGED hd_vars
    /\ UNCHANGED render_others

TextEvent ==
    /\ AtEvent({"Text"})
    /\ \E st \in {OnText(Cur, RenderState)} : Commit(st)

StartCodeBlockEvent ==
    /\ AtEvent({"StartCodeBlock"})
    /\ Commit(OnStartCodeBlock(Cur, RenderState))

EndCodeBlockEvent ==
    /\ AtEvent({"EndCodeBlock"})
    /\ Commit(OnEndCodeBlock(Cur, RenderState))

EmptyLinkEvent ==
    /\ AtEvent({"StartLink"})
    /\ Cur.event.link = <<>>
    /\ Commit(OnEmptyLink(Cur, RenderState))

LinkEvent ==
    /\ AtEvent({"StartLink"})
    /\ Cur.event.link # <<>>
    /\ \E st \in {OnLink(Cur, RenderState, r_ctx)} : Commit(st)

StartParagraphEvent ==
    /\ AtEvent({"StartParagraph"})
    /\ Commit(OnStartParagraph(Cur, RenderState, r_content))

EndParagraphEvent ==
    /\ AtEvent({"EndParagraph"})
    /\ Commit(OnEndParagraph(Cur, RenderState))

HtmlEvent ==
    /\ AtEvent({"Html"})
    /\ \E st \in {OnHtml(Cur, RenderState)} : Commit(st)

\* _ => events.push(event)
OtherEvent ==
    /\ AtEvent({"EndLink", "StartHeading", "EndHeading", "Code"})
    /\ Commit(Push(RenderState, Cur.event))

\* after the loop: the filter of empty events, the section wrapping and
\* get_heading_refs (lines 479-498)
AfterLoop ==
    /\ r_pc = "loop"
    /\ r_idx = Len(r_parser)
    /\ \E wrapped \in {WrapSections(context.section_tags,
                                    WithoutEmpty(r_events))} :
         IF wrapped.panic
         THEN /\ r_pc' = "panic"
              /\ r_result' = Panicked
              /\ UNCHANGED hd_vars
         ELSE /\ r_pc' = "headings"
              /\ r_result' = r_result
              /\ hd_events' = wrapped.events
              /\ \E r \in {get_heading_refs(wrapped.events)} :
                    /\ heading_refs' = r.refs
                    /\ hd_pc' = IF r.panic THEN "panic" ELSE "first"
              /\ inserted_anchors' = <<>>
              /\ anchors_to_insert' = <<>>
              /\ headings' = <<>>
              /\ hd_k' = 0
              /\ UNCHANGED hd_items
    /\ UNCHANGED <<r_content, r_parser, r_shortcodes, r_ctx, r_idx,
                   html_shortcodes, next_shortcode, r_events, r_error,
                   code_block, internal_links, external_links, stop_next_end_p,
                   has_summary, rendered, suppressed>>
    /\ UNCHANGED render_others

\* the return: the `?` of the anchor template, or lines 574-584
Return ==
    /\ r_pc = "headings"
    /\ hd_pc \in {"done", "err", "panic"}
    /\ r_pc' = IF hd_pc = "panic" THEN "panic" ELSE "done"
    /\ r_result' = IF hd_pc = "panic" THEN Panicked
                   ELSE IF hd_pc = "err" THEN Err(AnchorTemplateFailed)
                   ELSE IF r_error # <<>> THEN Err(r_error[1])
                   ELSE LET body == push_html(hd_events)
                        IN  Ok(body, SummaryLen(has_summary, body),
                               internal_links, external_links)
    /\ UNCHANGED <<r_content, r_parser, r_shortcodes, r_ctx, r_idx,
                   html_shortcodes, next_shortcode, r_events, r_error,
                   code_block, internal_links, external_links, stop_next_end_p,
                   has_summary, rendered, suppressed>>
    /\ UNCHANGED hd_vars
    /\ UNCHANGED render_others

RenderNext ==
    \/ TextEvent
    \/ StartCodeBlockEvent
    \/ EndCodeBlockEvent
    \/ EmptyLinkEvent
    \/ LinkEvent
    \/ StartParagraphEvent
    \/ EndParagraphEvent
    \/ HtmlEvent
    \/ OtherEvent
    \/ AfterLoop
    \/ FirstPassStep
    \/ FirstPassEnd
    \/ SecondPassStep
    \/ InsertAnchorsStep
    \/ Return

-----------------------------------------------------------------------------
(* fix_link and construct_external_link_tag applied to drawn inputs *)

LinkTypes == {"Inline", "Email"}

LinkInputs ==
    { <<>>,
      Chars("@/ok.md"),
      Chars("@/ok.md#sec"),
      Chars("@/broken.md"),
      Chars("http://x.org"),
      Chars("https://x.org"),
      Chars("#frag"),
      Chars("img.png"),
      Chars("a@b.c") }

LinkUrls == { Chars("https://x.org"), Chars("http://y.org/?a=1&amp;b=2") }

LinkTitles == { <<>>, <<"T">> }

LinkContexts ==
    [current_page_path : {<<>>, Some(Chars("page.md"))},
     external_links_target_blank : BOOLEAN,
     external_links_no_follow : BOOLEAN,
     external_links_no_referrer : BOOLEAN]

NoLinkResult == [ok |-> TRUE, value |-> <<>>]

LinkIdle ==
    /\ lk_ctx = NoRenderContext
    /\ lk_history = <<>>
    /\ lk_internal = <<>>
    /\ lk_external = <<>>
    /\ lk_result = NoLinkResult
    /\ lk_url = <<>>
    /\ lk_title = <<>>
    /\ lk_tag = <<>>
    /\ lk_op = "none"

\* a context and two empty inventories
LinkInit ==
    /\ lk_ctx \in LinkContexts
    /\ lk_history = <<>>
    /\ lk_internal = <<>>
    /\ lk_external = <<>>
    /\ lk_result = NoLinkResult
    /\ lk_url = <<>>
    /\ lk_title = <<>>
    /\ lk_tag = <<>>
    /\ lk_op = "none"

\* fix_link(link_type, &link, context, &mut internal_links, &mut external_links)
FixLinkCall ==
    /\ Len(lk_history) < MaxLinks
    /\ \E link_type \in LinkTypes, link \in LinkInputs :
          \E fixed \in {fix_link(link_type, link, lk_ctx, lk_internal,
                                 lk_external)} :
             /\ lk_history' = Append(lk_history,
                                     [link_type |-> link_type, link |-> link])
             /\ lk_internal' = fixed.internal_links
             /\ lk_external' = fixed.external_links
             /\ lk_result' = [ok |-> fixed.ok, value |-> fixed.link]
    /\ lk_op' = "fix_link"
    /\ UNCHANGED <<lk_ctx, lk_url, lk_title, lk_tag>>
    /\ UNCHANGED lk_others

\* context.config.markdown.construct_external_link_tag(&url, &title)
ConstructTagCall ==
    /\ \E url \in LinkUrls, title \in LinkTitles :
          /\ lk_url' = url
          /\ lk_title' = title
          /\ lk_tag' = construct_external_link_tag(lk_ctx, url, title)
    /\ lk_op' = "construct_external_link_tag"
    /\ UNCHANGED <<lk_ctx, lk_history, lk_internal, lk_external, lk_result>>
    /\ UNCHANGED lk_others

LinkNext == FixLinkCall \/ ConstructTagCall

-----------------------------------------------------------------------------
(* find_anchor one call frame per step, on lists too long to write out:    *)
(* anchors is fd_list followed by the run name-1, .., name-fd_dense.  A    *)
(* frame with level = L > 0 is entered from the call with level 0 exactly  *)
(* when name and name-1, .., name-L are all in anchors and the stack holds *)
(* L + 1 frames, so the frames the recursion reaches near the end of the   *)
(* stack or of the range of u16 are drawn directly.                        *)

\* anchors.contains(&name)
DeepContainsName == Contains(fd_list, fd_name)

\* anchors.contains(&format!("{}-{}", name, n))
DeepContainsNumbered(n) ==
    \/ 1 <= n /\ n <= fd_dense
    \/ Contains(fd_list, fd_name \o <<"-">> \o Dec(n))

\* anchors.len()
DeepLen == Len(fd_list) + fd_dense

\* the call frames entered so far, the first call included
DeepFrames == (IF fd_wrapped THEN U16Max + 1 ELSE 0) + fd_level + 1

\* the number of frames of find_anchor a thread's stack holds depends on the
\* build and on the size the stack was given: a stack of the default size
\* holds fewer frames than the counter has values, an enlarged one more
DefaultStackFrames == 16384
LargeStackFrames == 131072
StackFrames == {DefaultStackFrames, LargeStackFrames}

DeepRuns == {0, 1, 2, U16Max - 1, U16Max, U16Max + 1}

\* the ids listed one by one: any of name, name-0, the two ids after the
\* run, and another name
DeepLists(name, dense) ==
    {(IF 1 \in pick THEN <<name>> ELSE <<>>)
     \o (IF 2 \in pick THEN <<name \o <<"-">> \o Dec(0)>> ELSE <<>>)
     \o (IF 3 \in pick THEN <<name \o <<"-">> \o Dec(dense + 1)>> ELSE <<>>)
     \o (IF 4 \in pick THEN <<name \o <<"-">> \o Dec(dense + 2)>> ELSE <<>>)
     \o (IF 5 \in pick THEN << <<"b">> >> ELSE <<>>) : pick \in SUBSET (1..5)}

NoAnchor == [id |-> <<>>]

DeepIdle ==
    /\ fd_build = "debug"
    /\ fd_name = <<>>
    /\ fd_list = <<>>
    /\ fd_dense = 0
    /\ fd_level = 0
    /\ fd_wrapped = FALSE
    /\ fd_frames = DefaultStackFrames
    /\ fd_result = NoAnchor
    /\ fd_pc = "idle"

\* the call with level 0 on a short list; on a long one the frame the
\* recursion has reached: the last one the stack holds, or the one three
\* levels before the end of the range when the stack holds that many
DeepInit ==
    /\ fd_build \in Builds
    /\ fd_name \in {<<"a">>, <<"a", "-", "1">>}
    /\ fd_dense \in DeepRuns
    /\ fd_list \in DeepLists(fd_name, fd_dense)
    /\ fd_frames \in StackFrames
    /\ fd_level = IF fd_dense >= U16Max - 1 /\ DeepContainsName
                  THEN (IF fd_frames < U16Max - 1
                        THEN fd_frames - 1 ELSE U16Max - 2)
                  ELSE 0
    /\ fd_wrapped = FALSE
    /\ fd_result = NoAnchor
    /\ fd_pc = "call"

\* one call frame of find_anchor(anchors, name, level).  The recursive call
\* needs a frame more: when the stack holds no more the process aborts.  A
\* frame entered with level 0 after the counter has wrapped has the
\* arguments of the first call, whose frames have all recursed: they repeat
\* until the stack holds no more
FindAnchorFrame ==
    /\ fd_pc = "call"
    /\ IF fd_wrapped /\ fd_level = 0
       THEN /\ fd_pc' = "abort"
            /\ UNCHANGED <<fd_level, fd_wrapped, fd_result>>
       ELSE IF fd_level = 0 /\ ~DeepContainsName
       THEN /\ fd_result' = [id |-> fd_name]
            /\ fd_pc' = "returned"
            /\ UNCHANGED <<fd_level, fd_wrapped>>
       ELSE \E next \in {U16Succ(fd_level)} :
              IF next.overflow /\ fd_build = "debug"
              THEN /\ fd_pc' = "panic"
                   /\ UNCHANGED <<fd_level, fd_wrapped, fd_result>>
              ELSE IF ~DeepContainsNumbered(next.value)
              THEN /\ fd_result' = [id |-> AnchorWithCounter(fd_name, fd_level)]
                   /\ fd_pc' = "returned"
                   /\ UNCHANGED <<fd_level, fd_wrapped>>
              ELSE IF DeepFrames + 1 > fd_frames
              THEN /\ fd_pc' = "abort"
                   /\ UNCHANGED <<fd_level, fd_wrapped, fd_result>>
              ELSE /\ fd_level' = next.value
                   /\ fd_wrapped' = (fd_wrapped \/ next.overflow)
                   /\ UNCHANGED <<fd_result, fd_pc>>
    /\ UNCHANGED <<fd_build, fd_name, fd_list, fd_dense, fd_frames>>
    /\ UNCHANGED fd_others

DeepNext == FindAnchorFrame

-----------------------------------------------------------------------------
(* Specifications *)

CtxIdle == context = [insert_anchor |-> "None", section_tags |-> "None"]

\* the section passes on drawn heading sequences
InitSections ==
    SecInit /\ CtxIdle /\ HdIdle /\ FaIdle /\ RegIdle /\ RenderIdle /\ LinkIdle
    /\ DeepIdle

SpecSections == InitSections /\ [][SecNext]_vars

\* the heading passes of markdown_to_html on drawn documents
InitHeadings ==
    HdInit /\ SecIdle /\ FaIdle /\ RegIdle /\ RenderIdle /\ LinkIdle
    /\ DeepIdle

SpecHeadings == InitHeadings /\ [][HdNext]_vars

\* find_anchor on drawn inputs
InitFindAnchor ==
    FaInit /\ CtxIdle /\ SecIdle /\ HdIdle /\ RegIdle /\ RenderIdle /\ LinkIdle
    /\ DeepIdle

SpecFindAnchor == InitFindAnchor /\ [][FaNext]_vars

\* threads initialising and reading the registries
InitRegistry ==
    RegInit /\ CtxIdle /\ SecIdle /\ HdIdle /\ FaIdle /\ RenderIdle /\ LinkIdle
    /\ DeepIdle

SpecRegistry == InitRegistry /\ [][RegNext]_vars

\* markdown_to_html on drawn documents
InitRender ==
    RenderInit /\ SecIdle /\ HdIdle /\ FaIdle /\ RegIdle /\ LinkIdle /\ DeepIdle

SpecRender == InitRender /\ [][RenderNext]_vars

\* fix_link and construct_external_link_tag on drawn inputs
InitLinks ==
    /\ LinkInit /\ CtxIdle /\ SecIdle /\ HdIdle /\ FaIdle /\ RegIdle /\ RenderIdle
    /\ DeepIdle

SpecLinks == InitLinks /\ [][LinkNext]_vars

\* find_anchor call frame by call frame
InitDeep ==
    /\ DeepInit /\ CtxIdle /\ SecIdle /\ HdIdle /\ FaIdle /\ RegIdle /\ RenderIdle
    /\ LinkIdle

SpecDeep == InitDeep /\ [][DeepNext]_vars

-----------------------------------------------------------------------------
(* Claims: section balance *)

\* the section markers of an event vector, in order, as +1 (open) / -1 (close)
RECURSIVE TextMarkers(_)
TextMarkers(text) ==
    IF text = <<>> THEN <<>>
    ELSE IF StartsWith(text, SECTION_OPEN.text)
    THEN <<1>> \o TextMarkers(Slice(text, Len(SECTION_OPEN.text), Len(text)))
    ELSE IF StartsWith(text, SECTION_CLOSE.text)
    THEN <<-1>> \o TextMarkers(Slice(text, Len(SECTION_CLOSE.text), Len(text)))
    ELSE TextMarkers(Tail(text))

RECURSIVE Markers(_)
Markers(events) ==
    IF events = <<>> THEN <<>>
    ELSE (IF events[1].tag = "Html" THEN TextMarkers(events[1].text) ELSE <<>>)
         \o Markers(Tail(events))

RECURSIVE Sum(_)
Sum(s) == IF s = <<>> THEN 0 ELSE s[1] + Sum(Tail(s))

Balanced(events) ==
    LET m == Markers(events)
    IN  /\ Sum(m) = 0
        /\ \A k \in 0..Len(m) : Sum(SubSeq(m, 1, k)) >= 0

\* C3: in hierarchical and in flat mode, every sequence of heading levels yields
\* an event vector in which section opens equal section closes and no prefix
\* has more closes than opens (so the pass yields a vector for every sequence).
C3_SectionBalance ==
    /\ sec_pc # "panic"
    /\ sec_pc = "done" => Balanced(sec_events)

\* what the passes do guarantee: a pass that returns, returns a balanced vector
SectionBalanceWhenReturned == sec_pc = "done" => Balanced(sec_events)

-----------------------------------------------------------------------------
(* Claims: heading ids *)

\* the headings of the document as written, in order
HdHeadingItems == SelectSeq(hd_items, LAMBDA it : it.level # 0)

\* whether the k-th heading carries a {#id} marker, and the id it names
IsManual(k) == HdHeadingItems[k].explicit # <<>>
ManualId(k) == HdHeadingItems[k].explicit[1]

ManualIdsOfDocument ==
    {ManualId(k) : k \in {j \in 1..Len(HdHeadingItems) : IsManual(j)}}

\* the ids of the opening tags written into the event vector, in order
HeadingTagsOf(events) ==
    SelectSeq(events, LAMBDA e : e.tag = "Html" /\ StartsWith(e.text, Chars("<h")))

\* every heading has one resolved id, in the toc list and in its opening tag
EveryHeadingResolved ==
    /\ Len(headings) = Len(HdHeadingItems)
    /\ Len(HeadingTagsOf(hd_events)) = Len(HdHeadingItems)
    /\ \A k \in 1..Len(headings) :
          HeadingTagsOf(hd_events)[k] =
              Html(HeadingTag(HdHeadingItems[k].level, headings[k].id))

\* C4 as stated: after the two passes every heading has exactly one id and no
\* two headings of the document have the same id, whatever the mix of manual
\* and generated ids.
C4_AllIdsUnique ==
    hd_pc = "done" =>
        /\ EveryHeadingResolved
        /\ \A i, j \in 1..Len(headings) :
              i # j => headings[i].id # headings[j].id

\* C4 amended: after the two passes every heading has exactly one id, and two
\* headings have the same id only when both carry it as a manual {#id} marker.
C4_IdsUniqueUnlessBothManual ==
    hd_pc = "done" =>
        /\ EveryHeadingResolved
        /\ \A i, j \in 1..Len(headings) :
              (i # j /\ headings[i].id = headings[j].id)
                  => (IsManual(i) /\ IsManual(j))

\* a finished document with generated ids and with one manual id used twice
C4_Witness ==
    /\ hd_pc = "done"
    /\ \E i, j \in 1..Len(headings) :
          i < j /\ headings[i].id = headings[j].id
    /\ \E k \in 1..Len(headings) : ~IsManual(k)

\* C5: a generated id differs from every manual id of the document, wherever
\* that heading stands, and from the id of every earlier heading.
C5_GeneratedAvoidsAll ==
    \A k \in 1..Len(headings) :
        ~IsManual(k) =>
            /\ headings[k].id \notin ManualIdsOfDocument
            /\ \A j \in 1..(k - 1) : headings[j].id # headings[k].id

\* a heading whose slug is the manual id of a later heading got a generated id
C5_Witness ==
    /\ hd_pc = "done"
    /\ \E k \in 1..Len(headings) :
          /\ ~IsManual(k)
          /\ \E j \in (k + 1)..Len(headings) :
                IsManual(j) /\ ManualId(j) = slugify_anchors(headings[k].title)

\* C6: a heading with a {#id} marker resolves to exactly that id, also when
\* another heading has the same marker or an earlier heading slugifies to it,
\* and the passes raise no fault over it.
C6_ManualIdKept ==
    /\ hd_pc # "panic"
    /\ hd_pc \in {"second", "done", "err"} =>
          \A k \in 1..Len(heading_refs) :
              IsManual(k) => heading_refs[k].id = <<ManualId(k)>>
    /\ \A k \in 1..Len(headings) :
          IsManual(k) => headings[k].id = ManualId(k)

\* two headings with the same marker after a heading that slugifies to it
C6_Witness ==
    /\ hd_pc = "done"
    /\ \E h, i, j \in 1..Len(headings) :
          /\ h < i /\ i < j
          /\ ~IsManual(h) /\ IsManual(i) /\ IsManual(j)
          /\ ManualId(i) = ManualId(j)
          /\ slugify_anchors(headings[h].title) = ManualId(i)

\* name-N
Numbered(name, N) == name \o <<"-">> \o Dec(N)

\* C7: find_anchor(anchors, name, 0) is name when name is unused, and else
\* name-N for the smallest N >= 1 with name-N unused; the result is unused.
C7_FindAnchorSmallestFree ==
    fa_pc = "returned" =>
        /\ fa_result.ok
        /\ ~Contains(fa_anchors, fa_result.id)
        /\ ~Contains(fa_anchors, fa_name) => fa_result.id = fa_name
        /\ Contains(fa_anchors, fa_name) =>
              \E N \in 1..(Len(fa_anchors) + 1) :
                  /\ fa_result.id = Numbered(fa_name, N)
                  /\ \A M \in 1..(N - 1) : Contains(fa_anchors, Numbered(fa_name, M))

\* name and name-1 are used and name-2 is returned
C7_Witness ==
    /\ fa_pc = "returned"
    /\ Contains(fa_anchors, fa_name)
    /\ Contains(fa_anchors, Numbered(fa_name, 1))
    /\ fa_result.id = Numbered(fa_name, 2)

-----------------------------------------------------------------------------
(* Claims: the registries *)

\* C8: under every interleaving of concurrent initialisation calls, one value
\* is stored in each registry and every other call ends without aborting.
C8_InitRaceSafe == \A t \in Threads : t_pc[t] # "init_panic"

\* C9: a registry that holds a value keeps that value through every later
\* step of every initialisation call and render.
C9_WrittenAtMostOnce ==
    [][/\ EXTRA_SYNTAX_SET # <<>> => EXTRA_SYNTAX_SET' = EXTRA_SYNTAX_SET
       /\ EXTRA_HIGHLIGHT_THEME_SET # <<>> =>
             EXTRA_HIGHLIGHT_THEME_SET' = EXTRA_HIGHLIGHT_THEME_SET]_vars

\* an initialisation that loaded another syntax set has returned, and a render
\* has finished, with the first set still in the registry
C9_Witness ==
    /\ EXTRA_SYNTAX_SET # <<>>
    /\ \E t \in Threads :
          /\ t_pc[t] = "idle"
          /\ t_result[t] \in {"init_ok", "init_err"}
          /\ load_extra_syntaxes(t_cfg[t]).value # <<>>
          /\ load_extra_syntaxes(t_cfg[t]).value # EXTRA_SYNTAX_SET
    /\ \E t \in Threads :
          /\ t_pc[t] = "idle"
          /\ t_result[t] \in {"Plain", "Extra", "BuiltIn", "NotFound"}

-----------------------------------------------------------------------------
(* Claims: shortcode interpolation *)

\* the calls of the supplied list whose span lies inside [start, end)
RECURSIVE CallsInside(_, _, _)
CallsInside(calls, start, end) ==
    IF calls = <<>> THEN <<>>
    ELSE (IF start <= calls[1].span.start /\ calls[1].span.end <= end
          THEN <<calls[1]>> ELSE <<>>)
         \o CallsInside(Tail(calls), start, end)

\* a fragment's text cut at the calls: the text from source offset pos to the
\* next call, that call's markup, .., the text after the last call
RECURSIVE Spliced(_, _, _, _, _)
Spliced(tag, text, start, pos, calls) ==
    IF calls = <<>>
    THEN <<[tag |-> tag, text |-> Slice(text, pos - start, Len(text))]>>
    ELSE <<[tag |-> tag,
            text |-> Slice(text, pos - start, calls[1].span.start - start)],
           Html(ShortcodeRender(calls[1]).value)>>
         \o Spliced(tag, text, start, calls[1].span.end, Tail(calls))

\* the loop is about to take a text or raw-markup fragment that holds pending
\* calls, the first of them being the next call, and all of them render
AtFragmentWithCalls ==
    /\ AtEvent({"Text", "Html"})
    /\ code_block = <<>>
    /\ FindSub(Cur.event.text, MORE_MARKER) = -1
    /\ LET inside == CallsInside(r_shortcodes, Cur.start, Cur.end)
       IN  /\ inside # <<>>
           /\ next_shortcode = Some(inside[1])
           /\ \A i \in 1..Len(inside) : inside[i].ok

\* C1: interpolating a fragment that holds k >= 1 pending calls emits, in
\* order, the fragment's text before the first call (if not empty), each
\* call's markup and the text between two calls, and the text after the last
\* call; nothing else, and without fault, wherever the fragment begins.
\* Empty pieces are left out of the comparison on both sides.
C1_FragmentSpliced ==
    [][(AtFragmentWithCalls /\ r_idx' = r_idx + 1)
        => /\ r_pc' # "panic"
           /\ WithoutEmpty(SubSeq(r_events', Len(r_events) + 1, Len(r_events')))
                = WithoutEmpty(Spliced(Cur.event.tag, Cur.event.text, Cur.start,
                                       Cur.start,
                                       CallsInside(r_shortcodes, Cur.start,
                                                   Cur.end)))]_vars

\* the cursor over the remaining calls, in the order they will be taken
CursorOrder ==
    next_shortcode
    \o [i \in 1..Len(html_shortcodes) |->
            html_shortcodes[Len(html_shortcodes) + 1 - i]]

\* C2: at every point of a render the calls handed to the template engine
\* are a prefix of the supplied list, in its order, each once, and the cursor
\* holds exactly the calls after that prefix: no call that was passed is
\* held, taken or rendered again.
C2_CallsConsumedInOrder ==
    r_pc # "idle" =>
        /\ Len(rendered) <= Len(r_shortcodes)
        /\ rendered = SubSeq(r_shortcodes, 1, Len(rendered))
        /\ CursorOrder = SubSeq(r_shortcodes, Len(rendered) + 1, Len(r_shortcodes))

\* a render that returned after rendering two calls taken from two fragments
C2_Witness ==
    /\ r_pc = "done"
    /\ Len(rendered) = 2
    /\ \E i, j \in 1..Len(r_parser) :
          /\ i < j
          /\ r_parser[i].event.tag \in {"Text", "Html"}
          /\ r_parser[j].event.tag \in {"Text", "Html"}
          /\ CallsInside(r_shortcodes, r_parser[i].start, r_parser[i].end)
                = <<rendered[1]>>
          /\ CallsInside(r_shortcodes, r_parser[j].start, r_parser[j].end)
                = <<rendered[2]>>

-----------------------------------------------------------------------------
(* Claims: errors of a render *)

\* the internal references of the document that fail permalink lookup
BrokenLinks ==
    {r_parser[i].event.link : i \in
        {k \in 1..Len(r_parser) :
            /\ r_parser[k].event.tag = "StartLink"
            /\ r_parser[k].event.link_type # "Email"
            /\ StartsWith(r_parser[k].event.link, Chars("@/"))
            /\ ~resolve_internal_link(r_parser[k].event.link, Permalinks).ok}}

\* C10: a render of a document that holds a broken internal reference returns
\* an error whose message names a broken reference of the document, whatever
\* else the document holds.
C10_BrokenLinkNamed ==
    (r_pc = "done" /\ BrokenLinks # {}) =>
        /\ r_result.kind = "Err"
        /\ r_result.error \in {RelativeLinkNotFound(l) : l \in BrokenLinks}

-----------------------------------------------------------------------------
(* Claims: the highlighter's source and the configured theme *)

\* the token as the built-in lookup takes it
NormalisedToken(lang) == IF lang \in {"js", "javascript"} THEN "ts" ELSE lang

\* a thread returns from get_highlighter in this step
HighlighterReturns(t) ==
    t_pc[t] = "highlighter_syntax" /\ t_pc'[t] = "idle"

\* C17: the source get_highlighter reports is Plain iff no token is given;
\* Extra iff a token is given and the populated extra registry matches it as
\* written; BuiltIn iff a token is given, the extra registry is empty or has
\* no match, and the built-in registry matches the normalised token; NotFound
\* iff a token is given and neither registry matches.
C17_SourceExact ==
    [][\A t \in Threads : HighlighterReturns(t) =>
          LET language == t_lang'[t]
              given == language # <<>>
              in_extra == /\ given
                          /\ EXTRA_SYNTAX_SET # <<>>
                          /\ language[1] \in EXTRA_SYNTAX_SET[1]
              in_builtin == /\ given
                            /\ NormalisedToken(language[1]) \in BUILTIN_SYNTAX_SET
          IN  /\ t_result'[t] \in {"Plain", "Extra", "BuiltIn", "NotFound"}
              /\ t_result'[t] = "Plain" <=> ~given
              /\ t_result'[t] = "Extra" <=> in_extra
              /\ t_result'[t] = "BuiltIn" <=> (given /\ ~in_extra /\ in_builtin)
              /\ t_result'[t] = "NotFound" <=> (given /\ ~in_extra /\ ~in_builtin)]_vars

\* get_highlighter has reported Extra for the token js, which the built-in
\* registry knows only as ts, and BuiltIn for another token
C17_Witness ==
    /\ \E t \in Threads :
          /\ t_pc[t] = "idle"
          /\ t_result[t] = "Extra"
          /\ t_lang[t] = <<"js">>
    /\ \E t \in Threads :
          /\ t_pc[t] = "idle"
          /\ t_result[t] = "BuiltIn"
          /\ t_lang[t] = <<"javascript">>

\* the theme of a configuration is in one of the two registries
ThemeKnown(cfg, theme_cell) ==
    \/ cfg.highlight_theme \in BUILTIN_HIGHLIGHT_THEME_SET
    \/ theme_cell # <<>> /\ cfg.highlight_theme \in theme_cell[1]

\* C18: an initialisation call that reaches the validation returns an error
\* exactly when the configured theme is in neither registry as they stand;
\* while a thread holds a successful initialisation of a configuration the
\* theme of that configuration resolves, and a render that starts with that
\* configuration passes its theme lookup without fault, whatever calls other
\* threads have made before or in between.
C18_ThemeErrorAtInitOnly ==
    [][/\ \A t \in Threads :
            (t_pc[t] = "validate" /\ t_pc'[t] = "idle") =>
                (t_result'[t] = "init_err"
                    <=> ~ThemeKnown(t_cfg[t], EXTRA_HIGHLIGHT_THEME_SET))
       /\ \A t \in Threads :
            (t_pc'[t] = "idle" /\ t_result'[t] = "init_ok") =>
                get_highlight_theme(t_cfg'[t], EXTRA_HIGHLIGHT_THEME_SET') = "ok"
       /\ \A t, u \in Threads :
            (/\ t_pc[u] = "idle"
             /\ t_result[u] = "init_ok"
             /\ t_pc[t] = "idle"
             /\ t_pc'[t] \in {"highlighter_syntax", "render_panic"}
             /\ t_cfg'[t] = t_cfg[u])
            => t_pc'[t] = "highlighter_syntax"]_vars

\* a configuration whose theme only the extra registry holds was validated,
\* and another thread rendering with it has passed the theme lookup
C18_Witness ==
    \E t, u \in Threads :
        /\ t # u
        /\ t_pc[t] = "idle"
        /\ t_result[t] = "init_ok"
        /\ t_cfg[t].highlight_theme \notin BUILTIN_HIGHLIGHT_THEME_SET
        /\ t_pc[u] = "highlighter_syntax"
        /\ t_cfg[u] = t_cfg[t]

-----------------------------------------------------------------------------
(* Claims: faults of the hierarchical section pass *)

\* C20: make_hierarchical_sections completes without fault for every sequence
\* of heading levels in 1..6; it never reads the top of an empty stack.
C20_HierarchicalNeverFaults == sec_mode = "Hierarchical" => sec_pc # "panic"

-----------------------------------------------------------------------------
(* Claims: the result of a render *)

\* the positions in the document of the link starts that have no target
EmptyLinks ==
    {k \in 1..Len(r_parser) :
        r_parser[k].event.tag = "StartLink" /\ r_parser[k].event.link = <<>>}

\* one of the four kinds of error happened in the render that has returned:
\* a link without target, an internal reference that does not resolve, a call
\* whose rendering failed, or the anchor template failing
ErrorOccurred ==
    \/ EmptyLinks # {}
    \/ BrokenLinks # {}
    \/ \E i \in 1..Len(rendered) : ~rendered[i].ok
    \/ hd_pc = "err"

\* C11: a render that returns after at least one error (missing link target,
\* unresolved internal reference, failed call, failed anchor template)
\* returns an error and no body or link inventory; a render that returns
\* after no such error returns a Rendered value, whose body is the
\* serialized event vector and whose inventories are the loop's.
C11_ErrorIffNoRendered ==
    r_pc = "done" =>
        IF ErrorOccurred
        THEN /\ r_result.kind = "Err"
             /\ r_result.error # <<>>
             /\ r_result.body = <<>>
             /\ r_result.summary_len = <<>>
             /\ r_result.internal_links = <<>>
             /\ r_result.external_links = <<>>
        ELSE /\ r_result.kind = "Ok"
             /\ r_result.body = push_html(hd_events)
             /\ r_result.internal_links = internal_links
             /\ r_result.external_links = external_links

\* a render that returned an error although a link had been inventoried
\* and events had been collected
C11_Witness ==
    /\ r_pc = "done"
    /\ BrokenLinks # {}
    /\ r_result.kind = "Err"
    /\ internal_links # <<>>
    /\ hd_events # <<>>

\* a render that returned a Rendered value holding an inventory
C11_WitnessOk ==
    /\ r_pc = "done"
    /\ r_result.kind = "Ok"
    /\ r_result.internal_links # <<>>
    /\ r_result.body # <<>>

-----------------------------------------------------------------------------
(* Claims: the link without target *)

\* `match event { .. }`: the arm taken for a pair and the state it leaves
MatchEvent(cur, st, ctx, content) ==
    IF cur.event.tag = "Text" THEN OnText(cur, st)
    ELSE IF cur.event.tag = "StartCodeBlock" THEN OnStartCodeBlock(cur, st)
    ELSE IF cur.event.tag = "EndCodeBlock" THEN OnEndCodeBlock(cur, st)
    ELSE IF cur.event.tag = "StartLink" /\ cur.event.link = <<>>
    THEN OnEmptyLink(cur, st)
    ELSE IF cur.event.tag = "StartLink" THEN OnLink(cur, st, ctx)
    ELSE IF cur.event.tag = "StartParagraph"
    THEN OnStartParagraph(cur, st, content)
    ELSE IF cur.event.tag = "EndParagraph" THEN OnEndParagraph(cur, st)
    ELSE IF cur.event.tag = "Html" THEN OnHtml(cur, st)
    ELSE Push(st, cur.event)

\* the loop takes one pair in this step
LoopStep == r_pc = "loop" /\ r_idx < Len(r_parser) /\ r_idx' = r_idx + 1

\* C12: the iteration that takes a link start with an empty target records
\* the missing-URL error, appends exactly one event, the link start with the
\* target "#" and the same kind and title, leaves both inventories and the
\* shortcode cursor as they were, and does not end the loop; and every
\* iteration leaves the events, cursor, inventories and flags that the same
\* iteration leaves when no error has been recorded before it.
C12_EmptyLinkContinues ==
    [][LoopStep =>
        /\ (Cur.event.tag = "StartLink" /\ Cur.event.link = <<>>) =>
              /\ r_error' = Some(MissingUrl)
              /\ r_events' = Append(r_events,
                                    StartLink(Cur.event.link_type, <<"#">>,
                                              Cur.event.title))
              /\ internal_links' = internal_links
              /\ external_links' = external_links
              /\ next_shortcode' = next_shortcode
              /\ html_shortcodes' = html_shortcodes
              /\ rendered' = rendered
              /\ r_pc' = "loop"
        /\ LET clean == MatchEvent(Cur, [RenderState EXCEPT !.error = <<>>],
                                   r_ctx, r_content)
           IN  /\ r_events' = clean.events
               /\ next_shortcode' = clean.next
               /\ html_shortcodes' = clean.stack
               /\ rendered' = clean.rendered
               /\ internal_links' = clean.internal_links
               /\ external_links' = clean.external_links
               /\ code_block' = clean.code_block
               /\ stop_next_end_p' = clean.stop_next_end_p
               /\ has_summary' = clean.has_summary
               /\ (r_pc' = "panic") = clean.panic
               /\ r_error' = IF clean.error # <<>> THEN clean.error ELSE r_error
    ]_vars

\* a render that returned the missing-URL error after a link placed behind
\* the link without target had been inventoried
C12_Witness ==
    /\ r_pc = "done"
    /\ r_result = Err(MissingUrl)
    /\ \E i \in EmptyLinks :
         \E j \in (i + 1)..Len(r_parser) :
            /\ r_parser[j].event.tag = "StartLink"
            /\ r_parser[j].event.link # <<>>
    /\ Len(internal_links) + Len(external_links) > 0
    /\ \E k \in 1..Len(hd_events) :
          hd_events[k].tag = "StartLink" /\ hd_events[k].link = <<"#">>

-----------------------------------------------------------------------------
(* Claims: paragraphs that hold one shortcode only *)

IsParagraphEvent(e) == e.tag \in {"StartParagraph", "EndParagraph"}

\* the paragraph start that the paragraph end at position k of the document
\* closes
MatchingStart(k) ==
    CHOOSE j \in 1..(k - 1) :
        /\ r_parser[j].event.tag = "StartParagraph"
        /\ \A m \in (j + 1)..(k - 1) : r_parser[m].event.tag # "StartParagraph"

\* the next pending call covers the source of the paragraph starting at
\* position k, whitespace around it aside
NextCallIsParagraph(k) ==
    /\ next_shortcode # <<>>
    /\ next_shortcode[1].span.start = r_parser[k].start
    /\ next_shortcode[1].span.end - next_shortcode[1].span.start
          = ByteLen(Trim(Slice(r_content, r_parser[k].start, r_parser[k].end)))

\* the paragraph events of the document that were not replaced, in order
RECURSIVE KeptParagraphEvents(_)
KeptParagraphEvents(k) ==
    IF k = 0 THEN <<>>
    ELSE KeptParagraphEvents(k - 1)
         \o (IF IsParagraphEvent(r_parser[k].event) /\ k \notin suppressed
             THEN <<r_parser[k].event>> ELSE <<>>)

\* the paragraph events of an event vector, in order
RECURSIVE ParagraphEvents(_)
ParagraphEvents(list) ==
    IF list = <<>> THEN <<>>
    ELSE (IF IsParagraphEvent(list[1]) THEN <<list[1]>> ELSE <<>>)
         \o ParagraphEvents(Tail(list))

\* starts and ends alternate, beginning with a start and ending with an end
RECURSIVE ParagraphsBalanced(_)
ParagraphsBalanced(list) ==
    \/ list = <<>>
    \/ /\ Len(list) >= 2
       /\ list[1].tag = "StartParagraph"
       /\ list[2].tag = "EndParagraph"
       /\ ParagraphsBalanced(Tail(Tail(list)))

\* C16: a paragraph start is replaced by an empty fragment iff the next
\* pending call starts where the paragraph's source starts and is as long as
\* the paragraph's trimmed source; a paragraph end is replaced iff the start
\* it closes was replaced; a paragraph event that is not replaced is pushed
\* as it is; and the events handed on after the loop hold exactly the
\* paragraph events that were not replaced, starts and ends balanced.
C16_SuppressionPaired ==
    [][/\ (LoopStep /\ Cur.event.tag = "StartParagraph") =>
             /\ (r_idx + 1 \in suppressed') <=> NextCallIsParagraph(r_idx + 1)
             /\ r_events' = Append(r_events,
                                   IF NextCallIsParagraph(r_idx + 1)
                                   THEN Html(<<>>) ELSE Cur.event)
       /\ (LoopStep /\ Cur.event.tag = "EndParagraph") =>
             /\ (r_idx + 1 \in suppressed')
                   <=> (MatchingStart(r_idx + 1) \in suppressed)
             /\ r_events' = Append(r_events,
                                   IF MatchingStart(r_idx + 1) \in suppressed
                                   THEN Html(<<>>) ELSE Cur.event)
       /\ (LoopStep /\ ~IsParagraphEvent(Cur.event)) =>
             /\ suppressed' = suppressed
             /\ r_pc' = "loop" =>
                   ParagraphEvents(r_events') = ParagraphEvents(r_events)
       /\ (r_pc = "loop" /\ r_pc' = "headings") =>
             /\ ParagraphEvents(hd_events') = KeptParagraphEvents(Len(r_parser))
             /\ ParagraphsBalanced(ParagraphEvents(hd_events'))
    ]_vars

\* a render that returned a body after replacing the events of one paragraph
\* and keeping those of another
C16_Witness ==
    /\ r_pc = "done"
    /\ r_result.kind = "Ok"
    /\ Cardinality(suppressed) = 2
    /\ Len(ParagraphEvents(hd_events)) = 2

-----------------------------------------------------------------------------
(* Claims: the summary offset *)

\* the positions in the document of the raw-markup events that hold the
\* marker
MarkerEvents ==
    {k \in 1..Len(r_parser) :
        /\ r_parser[k].event.tag = "Html"
        /\ FindSub(r_parser[k].event.text, MORE_MARKER) # -1}

\* the positions in the serialized vector of the sentinel events, which are
\* the events that replaced a marker
SentinelEvents ==
    {k \in 1..Len(hd_events) : hd_events[k] = Html(CONTINUE_READING)}

\* where the serializer writes event k of the vector
OffsetOfEvent(k) == Len(push_html(SubSeq(hd_events, 1, k - 1)))

Min(S) == CHOOSE x \in S : \A y \in S : x <= y

\* C15: a successful render returns summary_len None when no raw-markup
\* event of the document holds the marker; when one does, it returns
\* Some(offset), offset being where the body holds the sentinel that replaced
\* the first marker; and the flag is set iff a marker was seen, however many.
C15_SummaryAtSentinel ==
    (r_pc = "done" /\ r_result.kind = "Ok") =>
        /\ has_summary <=> MarkerEvents # {}
        /\ Cardinality(SentinelEvents) = Cardinality(MarkerEvents)
        /\ IF MarkerEvents = {}
           THEN r_result.summary_len = <<>>
           ELSE r_result.summary_len = Some(OffsetOfEvent(Min(SentinelEvents)))

\* the same for the renders of documents whose raw markup nowhere holds the
\* text of the sentinel itself
C15_SummaryAtSentinelUnlessWritten ==
    (/\ r_pc = "done"
     /\ r_result.kind = "Ok"
     /\ \A k \in 1..Len(r_parser) :
           r_parser[k].event.tag = "Html"
              => FindSub(r_parser[k].event.text, CONTINUE_READING) = -1) =>
        /\ has_summary <=> MarkerEvents # {}
        /\ Cardinality(SentinelEvents) = Cardinality(MarkerEvents)
        /\ IF MarkerEvents = {}
           THEN r_result.summary_len = <<>>
           ELSE r_result.summary_len = Some(OffsetOfEvent(Min(SentinelEvents)))

\* a successful render of a document whose marker comes after other output
C15_Witness ==
    /\ r_pc = "done"
    /\ r_result.kind = "Ok"
    /\ r_result.summary_len # <<>>
    /\ r_result.summary_len[1] > 0
    /\ \A k \in 1..Len(r_parser) :
           r_parser[k].event.tag = "Html"
              => FindSub(r_parser[k].event.text, CONTINUE_READING) = -1

-----------------------------------------------------------------------------
(* Claims: documents of plain text and raw markup *)

\* the tokenizer's event sequence
ParserEvents == [k \in 1..Len(r_parser) |-> r_parser[k].event]

\* the document holds no heading, no link and no code block, and no call is
\* supplied
PlainDocument ==
    /\ r_shortcodes = <<>>
    /\ \A k \in 1..Len(r_parser) :
          r_parser[k].event.tag
             \in {"Text", "Html", "StartParagraph", "EndParagraph"}

\* C19 as stated: the render of a document without heading, link, code block
\* and pending call hands the tokenizer's event sequence to the serializer
\* unchanged, in every section mode and anchor mode, so the body is the
\* tokenizer's own output.
C19_PlainRoundTrip ==
    (r_pc = "done" /\ PlainDocument) =>
        /\ hd_events = ParserEvents
        /\ r_result.kind = "Ok"
        /\ r_result.body = push_html(ParserEvents)

\* C19 amended: the same for the documents none of whose raw-markup events
\* holds the marker of the summary (and none of whose text or raw-markup
\* events is empty).
C19_PlainRoundTripNoMarker ==
    (/\ r_pc = "done"
     /\ PlainDocument
     /\ MarkerEvents = {}
     /\ \A k \in 1..Len(r_parser) :
           r_parser[k].event.tag \in {"Text", "Html"}
              => r_parser[k].event.text # <<>>) =>
        /\ hd_events = ParserEvents
        /\ r_result.kind = "Ok"
        /\ r_result.body = push_html(ParserEvents)

\* a paragraph and a raw-markup block rendered with section wrapping and
\* anchor insertion switched on
C19_Witness ==
    /\ r_pc = "done"
    /\ PlainDocument
    /\ MarkerEvents = {}
    /\ context.section_tags # "None"
    /\ context.insert_anchor # "None"
    /\ \E k \in 1..Len(r_parser) : r_parser[k].event.tag = "Html"
    /\ \E k \in 1..Len(r_parser) : r_parser[k].event.tag = "Text"
    /\ r_result.body # <<>>

-----------------------------------------------------------------------------
(* Claims: the tag of a decorated external link *)

\* the value of rel for each combination of target_blank, no_follow and
\* no_referrer; empty when the attribute is left out
RelValue(target_blank, no_follow, no_referrer) ==
    IF target_blank /\ no_follow /\ no_referrer
    THEN Chars("noopener nofollow noreferrer")
    ELSE IF target_blank /\ no_follow THEN Chars("noopener nofollow")
    ELSE IF target_blank /\ no_referrer THEN Chars("noopener noreferrer")
    ELSE IF no_follow /\ no_referrer THEN Chars("nofollow noreferrer")
    ELSE IF target_blank THEN Chars("noopener")
    ELSE IF no_follow THEN Chars("nofollow")
    ELSE IF no_referrer THEN Chars("noreferrer")
    ELSE <<>>

\* C13: for each of the 8 combinations of the three flags and for an empty
\* and a non-empty title, construct_external_link_tag returns "<a ", then
\* rel (the space-joined sublist of noopener, nofollow, noreferrer, noopener
\* iff target_blank, nofollow iff no_follow, noreferrer iff no_referrer; left
\* out when the sublist is empty), then target="_blank" iff target_blank,
\* then title iff the title is not empty, then href; so target="_blank"
\* never comes without noopener.
C13_TagGroupsInOrder ==
    lk_op = "construct_external_link_tag" =>
        LET rel == RelValue(lk_ctx.external_links_target_blank,
                            lk_ctx.external_links_no_follow,
                            lk_ctx.external_links_no_referrer)
        IN  /\ lk_tag =
                 Chars("<a ")
                 \o (IF rel = <<>> THEN <<>>
                     ELSE Chars("rel=\"") \o rel \o Chars("\" "))
                 \o (IF lk_ctx.external_links_target_blank
                     THEN Chars("target=\"_blank\" ") ELSE <<>>)
                 \o (IF lk_title = <<>> THEN <<>>
                     ELSE Chars("title=\"") \o lk_title \o Chars("\" "))
                 \o Chars("href=\"") \o lk_url \o Chars("\">")
            /\ FindSub(lk_tag, Chars("target=\"_blank\" ")) # -1
                  => FindSub(lk_tag, Chars("noopener")) # -1

\* a tag with all three groups returned
C13_Witness ==
    /\ lk_op = "construct_external_link_tag"
    /\ lk_ctx.external_links_target_blank
    /\ lk_ctx.external_links_no_follow
    /\ ~lk_ctx.external_links_no_referrer
    /\ lk_title # <<>>
    /\ lk_tag = Chars("<a rel=\"noopener nofollow\" target=\"_blank\" ")
                \o Chars("title=\"T\" href=\"https://x.org\">")

-----------------------------------------------------------------------------
(* Claims: the classification of links *)

HasPrefix(link, prefix) == StartsWith(link, Chars(prefix))

\* the cases of the classification that apply to a call
LinkCases(link_type, link) ==
    (IF link_type = "Email" THEN {"email"} ELSE {})
    \cup (IF link_type # "Email" /\ HasPrefix(link, "@/")
          THEN {"internal"} ELSE {})
    \cup (IF /\ link_type # "Email"
             /\ (HasPrefix(link, "http:") \/ HasPrefix(link, "https:"))
          THEN {"external"} ELSE {})
    \cup (IF link_type # "Email" /\ HasPrefix(link, "#")
          THEN {"anchor"} ELSE {})
    \cup (IF /\ link_type # "Email"
             /\ \A prefix \in {"@/", "http:", "https:", "#"} :
                   ~HasPrefix(link, prefix)
          THEN {"other"} ELSE {})

\* C14: every call of fix_link falls under exactly one case, and what it
\* returns and appends is fixed by (link kind, link, context) alone: an
\* Email link is returned unchanged, nothing appended; an "@/" link appends
\* one (path, anchor) entry to internal_links and returns the permalink, or
\* fails appending nothing; an http:/https: link appends the link to
\* external_links only and is returned unchanged; a "#" link appends
\* (current path, fragment) to internal_links and returns the current
\* permalink followed by the link when the current path is known, and is
\* returned unchanged, nothing appended, when it is not; any other link is
\* returned unchanged, nothing appended.  Entries are appended at the end, so
\* the inventories are in the order of the calls.
C14_FixLinkCases ==
    [][lk_history' # lk_history =>
        LET call == Last(lk_history')
            link == call.link
            cases == LinkCases(call.link_type, link)
            unchanged == /\ lk_result' = [ok |-> TRUE, value |-> link]
                         /\ lk_internal' = lk_internal
                         /\ lk_external' = lk_external
            resolved == resolve_internal_link(link, Permalinks)
        IN  /\ Cardinality(cases) = 1
            /\ "email" \in cases => unchanged
            /\ "other" \in cases => unchanged
            /\ "internal" \in cases =>
                  /\ lk_external' = lk_external
                  /\ IF resolved.ok
                     THEN /\ lk_result' = [ok |-> TRUE,
                                           value |-> resolved.permalink]
                          /\ lk_internal' =
                                Append(lk_internal,
                                       [path |-> resolved.md_path,
                                        anchor |-> resolved.anchor])
                     ELSE /\ ~lk_result'.ok
                          /\ lk_internal' = lk_internal
            /\ "external" \in cases =>
                  /\ lk_result' = [ok |-> TRUE, value |-> link]
                  /\ lk_external' = Append(lk_external, link)
                  /\ lk_internal' = lk_internal
            /\ "anchor" \in cases =>
                  IF lk_ctx.current_page_path # <<>>
                  THEN /\ lk_result' =
                             [ok |-> TRUE,
                              value |-> CurrentPagePermalink \o link]
                       /\ lk_internal' =
                             Append(lk_internal,
                                    [path |-> lk_ctx.current_page_path[1],
                                     anchor |-> Some(Tail(link))])
                       /\ lk_external' = lk_external
                  ELSE unchanged
    ]_vars

\* two calls made one after the other, an "@/" link and then a "#" link with
\* the current path known, left their two entries in that order
C14_Witness ==
    /\ lk_op = "fix_link"
    /\ Len(lk_history) = 2
    /\ lk_history[1].link = Chars("@/ok.md#sec")
    /\ lk_history[2].link = Chars("#frag")
    /\ lk_internal = <<[path |-> Chars("ok.md"), anchor |-> Some(Chars("sec"))],
                       [path |-> Chars("page.md"), anchor |-> Some(Chars("frag"))]>>
    /\ lk_external = <<>>

-----------------------------------------------------------------------------
(* Claims: what the section passes insert, and where *)

SectionMarkers == {SECTION_OPEN, SECTION_CLOSE, SECTION_CLOSE_OPEN}

\* an event vector without the section markers
RECURSIVE WithoutMarkers(_)
WithoutMarkers(list) ==
    IF list = <<>> THEN <<>>
    ELSE (IF list[1] \in SectionMarkers THEN <<>> ELSE <<list[1]>>)
         \o WithoutMarkers(Tail(list))

\* the first event at or after position i of the vector that is no marker is
\* the start of a heading
RECURSIVE HeadingFollows(_, _)
HeadingFollows(list, i) ==
    /\ i <= Len(list)
    /\ IF list[i] \in SectionMarkers THEN HeadingFollows(list, i + 1)
       ELSE list[i].tag = "StartHeading"

\* k closing markers
Closers(k) == [i \in 1..k |-> SECTION_CLOSE]

\* C21: a section pass only inserts markers.  The iteration that takes the
\* start of a heading inserts one or more markers, all of them immediately
\* before that heading's start event as it lies in the vector after all
\* earlier insertions, and changes nothing else; an iteration that takes
\* another event changes nothing; the end of the pass appends one closing
\* marker per open level (hierarchical) or one if a section is open (flat)
\* after the last original event; and at every point the vector without its
\* markers is the original vector.
C21_MarkersOnlyBeforeHeadings ==
    [][/\ (sec_pc = "loop" /\ sec_n' = sec_n + 1 /\ sec_pc' = "loop") =>
            LET event == sec_src[sec_n + 1]
                pos == sec_n + items_added
                k == Len(sec_events') - Len(sec_events)
            IN  IF event.tag = "StartHeading"
                THEN /\ k >= 1
                     /\ items_added' = items_added + k
                     /\ sec_events[pos + 1] = event
                     /\ Slice(sec_events', 0, pos) = Slice(sec_events, 0, pos)
                     /\ \A i \in (pos + 1)..(pos + k) :
                           sec_events'[i] \in SectionMarkers
                     /\ Slice(sec_events', pos + k, Len(sec_events'))
                           = Slice(sec_events, pos, Len(sec_events))
                ELSE sec_events' = sec_events
       /\ (sec_pc = "loop" /\ sec_pc' = "done") =>
            /\ sec_events' = sec_events
                  \o (IF sec_mode = "Hierarchical"
                      THEN Closers(Len(level_stack))
                      ELSE Closers(IF in_section THEN 1 ELSE 0))
            /\ \A i \in 1..Len(sec_events) :
                  sec_events[i] \in SectionMarkers
                     => HeadingFollows(sec_events, i)
       /\ (sec_pc' \in {"loop", "done"}) =>
            WithoutMarkers(sec_events') = sec_src
    ]_vars

\* a hierarchical pass that returned after inserting three markers before
\* one heading, behind earlier insertions, and two closing markers at the end
C21_Witness ==
    /\ sec_pc = "done"
    /\ sec_mode = "Hierarchical"
    /\ \E i \in 1..(Len(sec_events) - 3) :
          /\ i > 3
          /\ sec_events[i] = SECTION_CLOSE
          /\ sec_events[i + 1] = SECTION_CLOSE
          /\ sec_events[i + 2] = SECTION_OPEN
          /\ sec_events[i + 3].tag = "StartHeading"
    /\ Len(sec_events) >= 2
    /\ sec_events[Len(sec_events)] = SECTION_CLOSE
    /\ sec_events[Len(sec_events) - 1] = SECTION_CLOSE

-----------------------------------------------------------------------------
(* Claims: where the anchor links go *)

IsHeadingTag(e) == e.tag = "Html" /\ StartsWith(e.text, Chars("<h"))

IsAnchorLink(e) ==
    e.tag = "Html" /\ StartsWith(e.text, Chars("<a class=\"zola-anchor\""))

\* the positions (1-based, ascending) of the rewritten opening tags, of the
\* closing tags and of the anchor links of a vector
RECURSIVE PositionsFrom(_, _, _)
PositionsFrom(list, i, kind) ==
    IF i > Len(list) THEN <<>>
    ELSE (IF \/ kind = "open" /\ IsHeadingTag(list[i])
             \/ kind = "close" /\ list[i].tag = "EndHeading"
             \/ kind = "anchor" /\ IsAnchorLink(list[i])
          THEN <<i>> ELSE <<>>)
         \o PositionsFrom(list, i + 1, kind)

\* C22: with anchor mode none the batched insertion inserts nothing; with
\* left it inserts exactly one anchor link per heading, immediately after
\* that heading's rewritten opening tag; with right exactly one per heading,
\* immediately before that heading's closing tag; each link carries its own
\* heading's id.  The queued indices are positions of the vector as it is
\* before the insertion (after section wrapping) and strictly increase, and
\* the insertion changes nothing but adding the links.
C22_AnchorsInsideOwnHeading ==
    [][(hd_pc = "second" /\ hd_pc' = "done") =>
         LET n == Len(headings)
             opens == PositionsFrom(hd_events, 1, "open")
             closes == PositionsFrom(hd_events, 1, "close")
             opens_after == PositionsFrom(hd_events', 1, "open")
             closes_after == PositionsFrom(hd_events', 1, "close")
             anchors_after == PositionsFrom(hd_events', 1, "anchor")
             link(j) == Html(AnchorLink(headings[j].level, headings[j].id))
         IN  /\ Len(opens) = n /\ Len(closes) = n
             /\ Len(opens_after) = n /\ Len(closes_after) = n
             /\ PositionsFrom(hd_events, 1, "anchor") = <<>>
             /\ context.insert_anchor = "None" =>
                   /\ hd_events' = hd_events
                   /\ anchors_after = <<>>
             /\ context.insert_anchor # "None" =>
                   /\ Len(anchors_to_insert) = n
                   /\ Len(anchors_after) = n
                   /\ \A j \in 1..(n - 1) :
                         anchors_to_insert[j].idx < anchors_to_insert[j + 1].idx
                   /\ [k \in 1..(Len(hd_events') - n) |->
                          hd_events'[CHOOSE i \in 1..Len(hd_events') :
                              /\ ~IsAnchorLink(hd_events'[i])
                              /\ Cardinality({m \in 1..i :
                                    ~IsAnchorLink(hd_events'[m])}) = k]]
                        = hd_events
             /\ context.insert_anchor = "Left" =>
                   \A j \in 1..n :
                      /\ anchors_to_insert[j].idx = opens[j]
                      /\ anchors_after[j] = opens_after[j] + 1
                      /\ hd_events'[anchors_after[j]] = link(j)
                      /\ anchors_after[j] < closes_after[j]
             /\ context.insert_anchor = "Right" =>
                   \A j \in 1..n :
                      /\ anchors_to_insert[j].idx = closes[j] - 1
                      /\ anchors_after[j] = closes_after[j] - 1
                      /\ hd_events'[anchors_after[j]] = link(j)
                      /\ anchors_after[j] > opens_after[j]
    ]_vars

\* three headings wrapped in nested sections, each with its anchor link
\* before its closing tag
C22_Witness ==
    /\ hd_pc = "done"
    /\ context.insert_anchor = "Right"
    /\ context.section_tags = "Hierarchical"
    /\ Len(headings) = 3
    /\ Len(PositionsFrom(hd_events, 1, "anchor")) = 3
    /\ \E i \in 1..Len(hd_events) : hd_events[i] = SECTION_CLOSE_OPEN

\* the same with the links after the opening tags, flat sections
C22_WitnessLeft ==
    /\ hd_pc = "done"
    /\ context.insert_anchor = "Left"
    /\ context.section_tags = "Flat"
    /\ Len(headings) = 3
    /\ Len(PositionsFrom(hd_events, 1, "anchor")) = 3

-----------------------------------------------------------------------------
(* Claims: a call that fails to render *)

\* the template engine has failed on a call in this render
FailedCall == \E i \in 1..Len(rendered) : ~rendered[i].ok

\* C23: once the template engine has failed on a call, that call is the last
\* one handed to it in this render: no call, neither the failed one nor a
\* later one of the list, is rendered afterwards, in the same iteration or
\* in a later one; the cursor is left empty; an error is kept, and the render
\* never returns a Rendered value: when it returns, it returns an error.
C23_FailureIsFinal ==
    [][/\ FailedCall =>
            /\ rendered' = rendered
            /\ next_shortcode' = <<>>
            /\ r_error' # <<>>
       /\ FailedCall' =>
            /\ ~Last(rendered').ok
            /\ \A i \in 1..(Len(rendered') - 1) : rendered'[i].ok
            /\ next_shortcode' = <<>>
            /\ r_error' # <<>>
            /\ r_result'.kind # "Ok"
            /\ r_pc' = "done" => r_result'.kind = "Err"
    ]_vars

\* a render that returned an error after the first of two calls had failed,
\* the second call lying in a later fragment and never rendered
C23_Witness ==
    /\ r_pc = "done"
    /\ r_result.kind = "Err"
    /\ Len(r_shortcodes) = 2
    /\ rendered = <<r_shortcodes[1]>>
    /\ ~r_shortcodes[1].ok
    /\ html_shortcodes = <<r_shortcodes[2]>>
    /\ \E k \in 1..Len(r_parser) :
          /\ r_parser[k].event.tag \in {"Text", "Html"}
          /\ r_parser[k].start > r_shortcodes[1].span.end
          /\ CallsInside(r_shortcodes, r_parser[k].start, r_parser[k].end)
                = <<r_shortcodes[2]>>

-----------------------------------------------------------------------------
(* Claims: find_anchor on long lists *)

\* the number a decimal numeral stands for
RECURSIVE ParseDec(_)
ParseDec(digits) ==
    IF digits = <<>> THEN 0
    ELSE 10 * ParseDec(Pop(digits))
         + (CHOOSE d \in 0..9 : Digits[d + 1] = Last(digits))

\* the id is not in anchors; id is name or name-N
DeepUnused(id) ==
    /\ ~Contains(fd_list, id)
    /\ id # fd_name =>
          LET n == ParseDec(SubSeq(id, Len(fd_name) + 2, Len(id)))
          IN  ~(1 <= n /\ n <= fd_dense)

\* C24: for every list of used ids and every name find_anchor returns, and
\* what it returns is an id that is not in the list, after at most as many
\* call frames as the list has ids, plus one; also when the ids name-N in the
\* list reach the end of the range of the 16-bit counter.  The call does not
\* abort, neither on the counter nor on the stack, and the recursion does not
\* come back to the arguments of its first call.
C24_AlwaysReturnsUnused ==
    /\ fd_pc \notin {"panic", "abort"}
    /\ ~(fd_pc = "call" /\ fd_wrapped /\ fd_level = 0)
    /\ fd_pc = "returned" =>
          /\ DeepUnused(fd_result.id)
          /\ DeepFrames <= DeepLen + 1

\* the same for the lists in which name-N is used for fewer than U16Max
\* values of N in a row, on a stack that holds a frame per used id and one
\* more
C24_ReturnsUnusedBelowRange ==
    (/\ fd_dense < U16Max
     /\ ~Contains(fd_list, fd_name \o <<"-">> \o Dec(U16Max))
     /\ DeepLen + 1 <= fd_frames) =>
        /\ fd_pc \notin {"panic", "abort"}
        /\ ~fd_wrapped
        /\ fd_pc = "returned" =>
              /\ DeepUnused(fd_result.id)
              /\ DeepFrames <= DeepLen + 1

\* name and name-1 .. name-65534 are used and name-65535 is returned
C24_WitnessBelowRange ==
    /\ fd_pc = "returned"
    /\ fd_dense = U16Max - 1
    /\ fd_result.id = fd_name \o <<"-">> \o Dec(U16Max)

-----------------------------------------------------------------------------
(* Claims: the stack of open levels in hierarchical mode *)

\* the number of opening (o = TRUE) or closing tags the markers of a vector
\* carry; the combined marker carries one of each
RECURSIVE SectionTags(_, _)
SectionTags(list, o) ==
    IF list = <<>> THEN 0
    ELSE (IF list[1] = SECTION_CLOSE_OPEN THEN 1
          ELSE IF list[1] = SECTION_OPEN /\ o THEN 1
          ELSE IF list[1] = SECTION_CLOSE /\ ~o THEN 1
          ELSE 0) + SectionTags(Tail(list), o)

StrictlyIncreasing(stack) ==
    \A i \in 1..(Len(stack) - 1) : stack[i] < stack[i + 1]

\* C25: in hierarchical mode, after the iteration that processes the start of
\* a heading, the stack of open levels is strictly increasing from bottom to
\* top, its top is the level of that heading, and its depth is the number of
\* section-open tags minus the number of section-close tags inserted so far
\* (the combined marker counting as one of each); the iterations in between
\* leave stack and markers alone.
C25_StackInvariant ==
    [][(sec_mode = "Hierarchical" /\ sec_pc = "loop"
        /\ sec_n' = sec_n + 1 /\ sec_pc' = "loop") =>
          LET event == sec_src[sec_n + 1]
          IN  IF event.tag = "StartHeading"
              THEN /\ StrictlyIncreasing(level_stack')
                   /\ level_stack' # <<>>
                   /\ Last(level_stack') = event.level
                   /\ Len(level_stack') = SectionTags(sec_events', TRUE)
                                          - SectionTags(sec_events', FALSE)
              ELSE /\ level_stack' = level_stack
                   /\ sec_events' = sec_events
    ]_vars

\* a heading of level 2 under an open level 1 has closed a deeper section and
\* its own predecessor: two levels open, at least two closing tags inserted
C25_Witness ==
    /\ sec_mode = "Hierarchical"
    /\ sec_pc = "loop"
    /\ level_stack = <<1, 2>>
    /\ SectionTags(sec_events, FALSE) >= 2
    /\ SectionTags(sec_events, TRUE) = SectionTags(sec_events, FALSE) + 2

-----------------------------------------------------------------------------
(* Claims: the registry behind a reported source *)

SyntaxSources == {"BuiltIn", "Extra", "Plain", "NotFound"}

\* C27: at every point after get_highlighter has returned a source to a
\* thread, whatever initialisation calls and renders the threads have made
\* since, syntax_set() on that source does not fault: a source Extra is held
\* only while the extra syntax registry holds a value, and the set it yields
\* contains the language the source was reported for.
C27_SyntaxSetNeverFaults ==
    \A t \in Threads :
        t_result[t] \in SyntaxSources =>
            LET r == syntax_set(t_result[t], EXTRA_SYNTAX_SET)
            IN  /\ ~r.panic
                /\ t_result[t] = "Extra" =>
                      /\ EXTRA_SYNTAX_SET # <<>>
                      /\ t_lang[t][1] \in r.set

\* a thread holds the source Extra while another thread is inside an
\* initialisation call that loaded a different syntax set
C27_Witness ==
    \E t \in Threads, u \in Threads :
        /\ t # u
        /\ t_pc[t] = "idle"
        /\ t_result[t] = "Extra"
        /\ t_pc[u] \in {"theme_check", "theme_set", "validate"}
        /\ load_extra_syntaxes(t_cfg[u]).value # <<>>
        /\ load_extra_syntaxes(t_cfg[u]).value # EXTRA_SYNTAX_SET

-----------------------------------------------------------------------------
(* Claims: every call of the list is rendered *)

\* the output of a call stands in the event vector as a raw-markup event
OutputEmitted(shortcode) ==
    \E k \in 1..Len(r_events) :
        r_events[k] = Html(ShortcodeRender(shortcode).value)

\* C26: whenever markdown_to_html returns a Rendered value, every call of the
\* supplied list has been rendered exactly once, in the order of the list,
\* and its output stands in the event vector, wherever the call spans lie:
\* in a text fragment, a raw-markup fragment, a code block or a raw-markup
\* event that holds the summary marker.
C26_NoCallDropped ==
    (r_pc = "done" /\ r_result.kind = "Ok") =>
        /\ rendered = r_shortcodes
        /\ next_shortcode = <<>>
        /\ html_shortcodes = <<>>
        /\ \A i \in 1..Len(r_shortcodes) : OutputEmitted(r_shortcodes[i])

====
